---- MODULE Spec2Model ----
(***************************************************************************)
(* Storage and transactional core of dumbdb (backend crate): lock table,   *)
(* concurrency manager, log manager, buffer pool, transactions.            *)
(*                                                                         *)
(* Threads are the processes of the model.  A step is one critical section *)
(* of the code (the part run under one mutex) or one thread-local stretch  *)
(* between two of them.                                                    *)
(***************************************************************************)
EXTENDS Integers, Sequences, FiniteSets, TLC

\* ------------------------------------------------------------------ bounds
NThreads == 3      \* threads (one transaction object each)
NBlocks == 2       \* blocks of the data file "test"
XRounds == 2       \* rounds of the slock/xlock/unlock thread of the lock test
SRounds == 1       \* rounds of each slock/unlock thread of the lock test
SBatch == 2        \* shared locks taken per round by a slock/unlock thread

Threads == 1..NThreads
Blocks == 1..NBlocks
\* The data file holds one block more than the locking clients use, so that
\* a client of the buffer pool can ask for more blocks than the pool has frames.
FileBlocks == 1..(NBlocks + 1)
NoLock == -2       \* the lock map holds no entry for the block
TestBlk == 1       \* the block the lock test works on

VARIABLES
    count,      \* LockTable.locks: block -> Lock.count (NoLock: no entry)
    waitq,      \* per block, the threads blocked in Lock.condvar.wait
    pc,         \* per thread: control point
    opn,        \* per thread: the call in progress
    blk,        \* per thread: the block of the call in progress
    cmLocks,    \* per thread: ConcurrencyManager.locks, block -> "N" | "S" | "X"
    relLeft,    \* per thread: blocks the running release() has still to unlock
    rounds,     \* per thread: rounds left in the lock test loop
    batch,      \* per thread: slock/unlock calls left in the current round
    tx,         \* per thread: the Tx object with its BufferList
    nextTx,     \* NEXT_TRANSACTION_NUM
    bufs,       \* BufferManager.buffers: frame -> Buffer
    bm,         \* BufferManager: unused, blk_to_buf, num_available, eviction list
    lg,         \* the LogManager and the blocks of its log file
    disk,       \* the data file: block -> page
    sys,        \* process state and what the workload may still do
    logt,       \* the log manager's client: records appended, LSNs returned,
                \* snapshots being iterated
    pool,       \* the buffer manager's client: the buffer handles it holds
    fm,         \* a FileManager with the files of its directory and its client
    rp,         \* a RecordPage's block, the log of its writes and its client
    bt,         \* a BTreeIndex: its leaf and directory files and its client
    pgt,        \* a Page and the values its client has written to it
    hx,         \* a StaticHashIndex: its bucket files and its client
    ghost       \* history kept for the properties: the LSN of each block image
                \* in the data file (dlsn), the committed i32 of each block
                \* (cInt) with the LSN of its Commit record (cAt), and the
                \* values a commit in flight at a crash had written (maybe)

lockVars == <<count, waitq>>
thrVars == <<pc, opn, blk, cmLocks, relLeft, rounds, batch>>
dbVars == <<tx, nextTx, bufs, bm, lg, disk, sys, ghost>>
unitVars == <<logt, pool, fm, rp, bt, pgt, hx>>
vars == <<count, waitq, pc, opn, blk, cmLocks, relLeft, rounds, batch,
          tx, nextTx, bufs, bm, lg, disk, sys, ghost, logt, pool, fm, rp,
          bt, pgt, hx>>
\* what the calls of a client of the log manager leave unchanged beside lg
logFrame == <<lockVars, thrVars, tx, nextTx, bufs, bm, disk, sys, ghost, pool, fm,
             rp, bt, pgt, hx>>
\* what the calls of a client of the buffer manager leave unchanged
poolFrame == <<lockVars, thrVars, tx, nextTx, sys, logt, fm, rp, bt, pgt, hx>>
\* what the calls of a client of the file manager leave unchanged
fmFrame == <<lockVars, thrVars, dbVars, logt, pool, rp, bt, pgt, hx>>
\* what the calls of a client of a record page leave unchanged
rpFrame == <<lockVars, thrVars, dbVars, logt, pool, fm, bt, pgt, hx>>
\* what the calls of a client of a B-tree index leave unchanged
btFrame == <<lockVars, thrVars, dbVars, logt, pool, fm, rp, pgt, hx>>
\* what the calls of a client of a page leave unchanged
pgtFrame == <<lockVars, thrVars, dbVars, logt, pool, fm, rp, bt, hx>>
\* what the calls of a client of a static hash index leave unchanged
hxFrame == <<lockVars, thrVars, dbVars, logt, pool, fm, rp, bt, pgt>>

\* ------------------------------------------------------ lock_table.rs
\* Lock::new_shared
new_shared == 1
\* Lock::new_exclusive
new_exclusive == -1

\* condvar.notify_one: one waiter, if any, leaves the wait set and goes back
\* to re-acquire the mutex and re-test its loop condition.
WokenPc(p) == IF p = "s_wait" THEN "s_chk" ELSE "x_chk"

\* (mutant) slock takes the block whatever its counter is
SlockNeverWaits(c) == FALSE

\* slock waits while the block is held exclusively
SlockMustWait(c) == c = -1

\* (mutant) xlock lets one other shared holder through
XlockMustWaitOffByOne(c) == c > 2

\* xlock waits while more than one shared lock is held
XlockMustWait(c) == c > 1

\* (mutant) unlock notifies only when the block is free
UnlockNotifiesFreeOnly(c) == c = 0

\* unlock notifies when the block is free or can be upgraded
UnlockNotifies(c) == c = 0 \/ c = 1

\* the counter after unlock
UnlockCount(c) == IF c = -1 THEN 0 ELSE IF c > 0 THEN c - 1 ELSE c

\* ------------------------------------------- what a thread does next
\* the calls of a transaction that end in ConcurrencyManager::xlock: set_int
\* and set_string, called by the client or by LogRecord::undo from
\* rollback and recover
XOps == {"set", "rollback", "recover"}

\* ConcurrencyManager::slock / xlock, after lock_tbl.slock returned
AfterSlock(t) ==
    /\ opn' = opn /\ blk' = blk /\ relLeft' = relLeft /\ rounds' = rounds
    /\ CASE opn[t] = "cm_slock" ->
              /\ cmLocks' = [cmLocks EXCEPT ![t][blk[t]] = "S"]
              /\ pc' = [pc EXCEPT ![t] = "idle"]
              /\ batch' = batch
         [] opn[t] = "cm_xlock" ->
              /\ cmLocks' = [cmLocks EXCEPT ![t][blk[t]] = "S"]
              /\ pc' = [pc EXCEPT ![t] = "x_map"]
              /\ batch' = batch
         [] opn[t] = "get_int" ->
              /\ cmLocks' = [cmLocks EXCEPT ![t][blk[t]] = "S"]
              /\ pc' = [pc EXCEPT ![t] = "body"]
              /\ batch' = batch
         [] opn[t] \in XOps ->
              /\ cmLocks' = [cmLocks EXCEPT ![t][blk[t]] = "S"]
              /\ pc' = [pc EXCEPT ![t] = "x_map"]
              /\ batch' = batch
         [] opn[t] = "t_x" ->
              /\ cmLocks' = cmLocks
              /\ pc' = [pc EXCEPT ![t] = "x_map"]
              /\ batch' = batch
         [] opn[t] = "t_s" ->
              /\ cmLocks' = cmLocks
              /\ batch' = [batch EXCEPT ![t] = IF @ = 1 THEN SBatch ELSE @ - 1]
              /\ pc' = [pc EXCEPT ![t] = IF batch[t] = 1 THEN "t_unlock" ELSE "s_map"]

\* ConcurrencyManager::xlock, after lock_tbl.xlock returned
AfterXlock(t) ==
    /\ opn' = opn /\ blk' = blk /\ relLeft' = relLeft /\ rounds' = rounds
    /\ batch' = batch
    /\ CASE opn[t] = "cm_xlock" ->
              /\ cmLocks' = [cmLocks EXCEPT ![t][blk[t]] = "X"]
              /\ pc' = [pc EXCEPT ![t] = "idle"]
         [] opn[t] \in XOps ->
              /\ cmLocks' = [cmLocks EXCEPT ![t][blk[t]] = "X"]
              /\ pc' = [pc EXCEPT ![t] = "body"]
         [] opn[t] = "t_x" ->
              /\ cmLocks' = cmLocks
              /\ pc' = [pc EXCEPT ![t] = "t_unlock"]

\* ------------------------------------------------------ LockTable steps
\* LockTable::slock, the section under the map mutex
SlockMap(t) ==
    /\ pc[t] = "s_map"
    /\ waitq' = waitq
    /\ IF count[blk[t]] = NoLock
       THEN /\ count' = [count EXCEPT ![blk[t]] = new_shared]
            /\ AfterSlock(t)
       ELSE /\ count' = count
            /\ pc' = [pc EXCEPT ![t] = "s_chk"]
            /\ UNCHANGED <<opn, blk, cmLocks, relLeft, rounds, batch>>
    /\ UNCHANGED <<dbVars, unitVars>>

\* LockTable::slock, the wait loop under the lock's own mutex
SlockChk(t) ==
    /\ pc[t] = "s_chk"
    /\ IF SlockMustWait(count[blk[t]])
       THEN /\ waitq' = [waitq EXCEPT ![blk[t]] = @ \cup {t}]
            /\ pc' = [pc EXCEPT ![t] = "s_wait"]
            /\ UNCHANGED <<count, opn, blk, cmLocks, relLeft, rounds, batch>>
       ELSE /\ count' = [count EXCEPT ![blk[t]] = @ + 1]
            /\ waitq' = waitq
            /\ AfterSlock(t)
    /\ UNCHANGED <<dbVars, unitVars>>

\* LockTable::xlock, the section under the map mutex
XlockMap(t) ==
    /\ pc[t] = "x_map"
    /\ waitq' = waitq
    /\ IF count[blk[t]] = NoLock
       THEN /\ count' = [count EXCEPT ![blk[t]] = new_exclusive]
            /\ AfterXlock(t)
       ELSE /\ count' = count
            /\ pc' = [pc EXCEPT ![t] = "x_chk"]
            /\ UNCHANGED <<opn, blk, cmLocks, relLeft, rounds, batch>>
    /\ UNCHANGED <<dbVars, unitVars>>

\* LockTable::xlock, the wait loop under the lock's own mutex
XlockChk(t) ==
    /\ pc[t] = "x_chk"
    /\ IF XlockMustWait(count[blk[t]])
       THEN /\ waitq' = [waitq EXCEPT ![blk[t]] = @ \cup {t}]
            /\ pc' = [pc EXCEPT ![t] = "x_wait"]
            /\ UNCHANGED <<count, opn, blk, cmLocks, relLeft, rounds, batch>>
       ELSE /\ count' = [count EXCEPT ![blk[t]] = -1]
            /\ waitq' = waitq
            /\ AfterXlock(t)
    /\ UNCHANGED <<dbVars, unitVars>>

\* Condvar::wait may return without a notification
SpuriousWake(t) ==
    /\ pc[t] \in {"s_wait", "x_wait"}
    /\ t \in waitq[blk[t]]
    /\ waitq' = [waitq EXCEPT ![blk[t]] = @ \ {t}]
    /\ pc' = [pc EXCEPT ![t] = WokenPc(pc[t])]
    /\ UNCHANGED <<count, opn, blk, cmLocks, relLeft, rounds, batch>>
    /\ UNCHANGED <<dbVars, unitVars>>

\* LockTable::unlock of block b by thread t, which goes on at newpc.
\* It panics when the map has no entry or the counter is 0.
Unlock(t, b, newpc) ==
    IF count[b] = NoLock \/ count[b] = 0
    THEN /\ pc' = [pc EXCEPT ![t] = "panic"]
         /\ UNCHANGED lockVars
    ELSE LET c == UnlockCount(count[b]) IN
         /\ count' = [count EXCEPT ![b] = c]
         /\ IF UnlockNotifies(c) /\ waitq[b] # {}
            THEN \E w \in waitq[b] :
                    /\ waitq' = [waitq EXCEPT ![b] = @ \ {w}]
                    /\ pc' = [pc EXCEPT ![t] = newpc, ![w] = WokenPc(pc[w])]
            ELSE /\ waitq' = waitq
                 /\ pc' = [pc EXCEPT ![t] = newpc]

\* ------------------------------------------- concurrency_manager.rs
NoLocks == [b \in Blocks |-> "N"]

\* ConcurrencyManager::has_xlock
has_xlock(t, b) == cmLocks[t][b] = "X"

\* ConcurrencyManager::slock, up to the call of lock_tbl.slock
CallSlock(t, b) ==
    /\ pc[t] = "idle"
    /\ cmLocks[t][b] = "N"
    /\ pc' = [pc EXCEPT ![t] = "s_map"]
    /\ opn' = [opn EXCEPT ![t] = "cm_slock"]
    /\ blk' = [blk EXCEPT ![t] = b]
    /\ UNCHANGED <<lockVars, cmLocks, relLeft, rounds, batch>>
    /\ UNCHANGED <<dbVars, unitVars>>

\* ConcurrencyManager::xlock, up to the first lock table call: the shared
\* lock is requested first unless some lock on the block is held already
CallXlock(t, b) ==
    /\ pc[t] = "idle"
    /\ ~has_xlock(t, b)
    /\ pc' = [pc EXCEPT ![t] = IF cmLocks[t][b] = "N" THEN "s_map" ELSE "x_map"]
    /\ opn' = [opn EXCEPT ![t] = "cm_xlock"]
    /\ blk' = [blk EXCEPT ![t] = b]
    /\ UNCHANGED <<lockVars, cmLocks, relLeft, rounds, batch>>
    /\ UNCHANGED <<dbVars, unitVars>>

\* ConcurrencyManager::release, entering the loop over self.locks
CallRelease(t) ==
    /\ pc[t] = "idle"
    /\ pc' = [pc EXCEPT ![t] = "rel"]
    /\ opn' = [opn EXCEPT ![t] = "release"]
    /\ relLeft' = [relLeft EXCEPT ![t] = {b \in Blocks : cmLocks[t][b] # "N"}]
    /\ UNCHANGED <<lockVars, blk, cmLocks, rounds, batch>>
    /\ UNCHANGED <<dbVars, unitVars>>

\* where release() returns to: commit and rollback go on with unpin_all
AfterRelease(t) == IF opn[t] \in {"commit", "rollback"} THEN "unpin_all" ELSE "idle"

\* ConcurrencyManager::release, one iteration (HashMap order: any block)
ReleaseOne(t) ==
    /\ pc[t] = "rel"
    /\ \E b \in relLeft[t] :
          /\ Unlock(t, b, "rel")
          /\ relLeft' = [relLeft EXCEPT ![t] = @ \ {b}]
    /\ UNCHANGED <<opn, blk, cmLocks, rounds, batch>>
    /\ UNCHANGED <<dbVars, unitVars>>

\* ConcurrencyManager::release, self.locks.clear()
ReleaseClear(t) ==
    /\ pc[t] = "rel"
    /\ relLeft[t] = {}
    /\ cmLocks' = [cmLocks EXCEPT ![t] = NoLocks]
    /\ pc' = [pc EXCEPT ![t] = AfterRelease(t)]
    /\ UNCHANGED <<lockVars, opn, blk, relLeft, rounds, batch>>
    /\ UNCHANGED <<dbVars, unitVars>>

\* ------------------------------------------------------------- page.rs
\* A data page is PageLen bytes.  The transactions of the model write an
\* i32 at IntOff and a string at StrOff.
MaxStr == 2                   \* longest string written, in bytes
LenSize == 4                  \* size_of::<u32>(), the string length prefix
I32Size == 4                  \* size_of::<i32>()
IntOff == 0
StrOff == IntOff + I32Size
PageLen == StrOff + LenSize + MaxStr

\* Page::new
ZeroPage == [i \in 1..PageLen |-> 0]

\* bytes bs written at offset off (page.data[off..off + len].copy_from_slice)
PutBytes(pg, off, bs) ==
    [i \in DOMAIN pg |->
        IF i > off /\ i <= off + Len(bs) THEN bs[i - off] ELSE pg[i]]

\* little-endian two's complement bytes of v (\div rounds down, so it is an
\* arithmetic shift)
LEBytes(v, n) == [i \in 1..n |-> (v \div (256 ^ (i - 1))) % 256]

\* big-endian bytes of v >= 0
BEBytes(v, n) == [i \in 1..n |-> (v \div (256 ^ (n - i))) % 256]

RECURSIVE LEValue(_, _, _)
LEValue(pg, off, n) ==
    IF n = 0 THEN 0 ELSE pg[off + 1] + 256 * LEValue(pg, off + 1, n - 1)

RECURSIVE BEValue(_, _, _)
BEValue(pg, off, n) ==
    IF n = 0 THEN 0 ELSE pg[off + n] + 256 * BEValue(pg, off, n - 1)

\* impl WriteTypeToPage for i32 (LittleEndian::write_i32)
WriteI32(pg, off, v) == PutBytes(pg, off, LEBytes(v, I32Size))

\* impl ReadTypeFromPage for i32 (LittleEndian::read_i32)
ReadI32(pg, off) ==
    LET top == pg[off + I32Size] IN
    LEValue(pg, off, I32Size - 1)
        + (256 ^ (I32Size - 1)) * (IF top >= 128 THEN top - 256 ELSE top)

\* impl WriteTypeToPage for &str: big-endian length, then the bytes
WriteStr(pg, off, str) ==
    PutBytes(PutBytes(pg, off, BEBytes(Len(str), LenSize)), off + LenSize, str)

\* impl ReadTypeFromPage for String
ReadStr(pg, off) ==
    LET len == BEValue(pg, off, LenSize) IN
    IF len = 0 THEN <<>> ELSE [i \in 1..len |-> pg[off + LenSize + i]]

\* ------------------------------------------------------- log_record.rs
\* A log record of the model is the decoded LogRecord; lsn is the LSN that
\* append returned for it (bookkeeping of the model, not part of the bytes).
Rec(type, txnum, b, off, v) ==
    [type |-> type, tx |-> txnum, blk |-> b, off |-> off, val |-> v, lsn |-> 0]

FileIdLen == 4     \* "test", the data file of the transactions

\* length of bincode::serialize(&record): u32 variant tag, i64 tx_num,
\* BlockId as (u64 length + bytes, u64), u16 offset, i32 or (u64 length + bytes);
\* a "Bytes" record is the byte slice a direct caller of append passes
RecLen(r) ==
    CASE r.type = "Checkpoint" -> 4
      [] r.type \in {"Start", "Commit", "Rollback"} -> 4 + 8
      [] r.type = "SetInt" -> 4 + 8 + (8 + FileIdLen + 8) + 2 + 4
      [] r.type = "SetString" -> 4 + 8 + (8 + FileIdLen + 8) + 2 + (8 + Len(r.val))
      [] r.type = "Bytes" -> Len(r.val)

\* ----------------------------------------------------- file_manager.rs
PAGE_SIZE == 4096
HEADER_SIZE == 1024

\* A file of the directory is the sequence of its blocks behind the header,
\* or NoFile when it does not exist; a block is represented by the byte
\* that fills its page (Page::new is all zero).
NoFile == <<-1>>
FileSize(file) == IF file = NoFile THEN 0 ELSE HEADER_SIZE + Len(file) * PAGE_SIZE

\* FileManager::get_file_position
FilePosition(num) == num * PAGE_SIZE + HEADER_SIZE

\* the block (numbered from 1) that the PAGE_SIZE bytes at pos are
BlockAt(pos) == (pos - HEADER_SIZE) \div PAGE_SIZE + 1

\* FileManager::get_or_create_file: a file this FileManager has not opened is
\* opened, created if missing, and HEADER_SIZE zero bytes are written at its
\* start
GetOrCreateFile(F, id) ==
    IF id \in F.open THEN F
    ELSE [F EXCEPT !.open = @ \cup {id},
                   !.dir[id] = IF @ = NoFile THEN <<>> ELSE @]

\* (mutant) get_block clears the page when the block is beyond the end
GetBlockPageZeroFill(F, id, num, page) ==
    LET G == GetOrCreateFile(F, id)
        pos == FilePosition(num)
    IN IF pos + PAGE_SIZE <= FileSize(G.dir[id]) THEN G.dir[id][BlockAt(pos)] ELSE 0

\* FileManager::get_block: the caller's page afterwards
GetBlockPage(F, id, num, page) ==
    LET G == GetOrCreateFile(F, id)
        pos == FilePosition(num)
    IN IF pos + PAGE_SIZE <= FileSize(G.dir[id]) THEN G.dir[id][BlockAt(pos)] ELSE page

\* FileManager::write_block panics for a file it has not opened and for a
\* block beyond the end of the file
WriteBlockOk(F, id, num) ==
    /\ id \in F.open
    /\ FilePosition(num) + PAGE_SIZE <= FileSize(F.dir[id])

\* (mutant) write_block writes the last block of the file
WriteBlockAtEnd(F, id, num, page) == [F EXCEPT !.dir[id][Len(F.dir[id])] = page]

\* FileManager::write_block
WriteBlock(F, id, num, page) == [F EXCEPT !.dir[id][BlockAt(FilePosition(num))] = page]

\* (mutant) append_block computes the block number from the size the file
\* had before it was opened
AppendBlockNumBeforeOpen(F, id) == (FileSize(F.dir[id]) - HEADER_SIZE) \div PAGE_SIZE

\* FileManager::append_block: the block number it returns
AppendBlockNum(F, id) ==
    (FileSize(GetOrCreateFile(F, id).dir[id]) - HEADER_SIZE) \div PAGE_SIZE

\* FileManager::append_block
AppendBlock(F, id, page) ==
    [GetOrCreateFile(F, id) EXCEPT !.dir[id] = Append(@, page)]

\* ------------------------------------------------------ log_manager.rs
LogPageSize == 100                \* P, the size of a log page in bytes
FRONTIER_START == 4               \* size_of::<Frontier>()
RecordLengthSize == 4             \* size_of::<RecordLength>()

\* The log manager with its file: page holds the records of the current
\* page in append order, file the pages of the log file, block by block.
RECURSIVE Frontier(_)
Frontier(page) ==
    IF page = <<>> THEN FRONTIER_START
    ELSE Frontier(Tail(page)) + RecLen(Head(page)) + RecordLengthSize

\* FileManager::length: 0 for a file this FileManager has not opened yet
FmLength(opened, file) == IF opened THEN (FileSize(file) - 1) \div PAGE_SIZE ELSE 0

\* LogManager::append_block
LogAppendBlock(L) ==
    [L EXCEPT !.page = <<>>, !.block_num = Len(L.file), !.file = Append(@, <<>>)]

\* LogManager::new on a directory whose log file holds `file`; its
\* FileManager is new, so it has opened no file
LogNew(file) ==
    LET num_blocks == FmLength(FALSE, file)
        L0 == [page |-> <<>>, block_num |-> 0, latest_lsn |-> 0,
               last_saved_lsn |-> 0, file |-> file]
    IN IF num_blocks = 0
       THEN LogAppendBlock(L0)
       ELSE [L0 EXCEPT !.page = file[num_blocks], !.block_num = num_blocks - 1]

\* LogManager::flush_all
LogFlushAll(L) ==
    [L EXCEPT !.file[L.block_num + 1] = L.page, !.last_saved_lsn = L.latest_lsn]

\* LogManager::flush
LogFlush(L, lsn) == IF L.latest_lsn >= lsn THEN L ELSE LogFlushAll(L)

\* (mutant) append does not advance latest_lsn
LogAppendKeepsLsn(L, r) ==
    LET L1 == IF Frontier(L.page) + RecLen(r) + RecordLengthSize >= LogPageSize
              THEN LogAppendBlock(LogFlushAll(L))
              ELSE L
    IN [L1 EXCEPT !.page = Append(@, [r EXCEPT !.lsn = L.latest_lsn])]

\* LogManager::append; the record gets the new latest_lsn
LogAppend(L, r) ==
    LET L1 == IF Frontier(L.page) + RecLen(r) + RecordLengthSize >= LogPageSize
              THEN LogAppendBlock(LogFlushAll(L))
              ELSE L
    IN [L1 EXCEPT !.page = Append(@, [r EXCEPT !.lsn = L.latest_lsn + 1]),
                  !.latest_lsn = @ + 1]

Reverse(sq) == [i \in 1..Len(sq) |-> sq[Len(sq) + 1 - i]]

\* What next() returns on a page whose frontier is FRONTIER_START right
\* after it moved to that page: it reads the frontier as a record length and
\* steps current_pos below 0, which panics.
BadRead == [type |-> "BadRead", tx |-> -1, blk |-> 0, off |-> 0, val |-> 0, lsn |-> 0]

\* the records LogManagerSnapshot::next yields from the page of block n
\* (blocks numbered from 1 here) on: the records of the page, last first;
\* then next() moves to the previous block, loads it and reads a record
\* there without testing its frontier again
RECURSIVE SnapshotFrom(_, _)
SnapshotFrom(file, n) ==
    Reverse(file[n]) \o
        (IF n = 1 THEN <<>>
         ELSE IF file[n - 1] = <<>> THEN <<BadRead>>
         ELSE SnapshotFrom(file, n - 1))

\* LogManager::snapshot, after its flush_all: what the iterator will yield
SnapshotRecs(L) == SnapshotFrom(L.file, L.block_num + 1)

\* ------------------------------------------------------------ buffer.rs
NBufs == 2         \* frames of the buffer pool
Frames == 1..NBufs
NoBlk == 0         \* Buffer.blk = None; blk_to_buf has no entry

\* no logged change of the i32 or of the string of the page is unwritten
NoChange == [int |-> -1, str |-> -1]

\* Buffer::new.  dirty is history: the page has been written since the
\* buffer was created or last wrote its page to the data file.  chg is
\* history too: for the i32 and for the string of the page, the LSN of the
\* logged write whose value the page holds and the data file does not yet
\* (-1: none, or an unlogged write has replaced the value).
NewBuffer == [blk |-> NoBlk, page |-> ZeroPage, pin_count |-> 0, tx_num |-> 0,
              lsn |-> -1, dirty |-> FALSE, chg |-> NoChange]

\* (mutant) flush writes only for the number of a transaction begun after
\* the first one
BufWritesLaterTx(buf) == buf.blk # NoBlk /\ buf.tx_num > 0

\* Buffer::flush writes when a block is assigned and tx_num >= 0
BufWrites(buf) == buf.blk # NoBlk /\ buf.tx_num >= 0

\* Buffer::flush, its effect on the log manager
BufFlushLog(buf, L) == IF BufWrites(buf) THEN LogFlush(L, buf.lsn) ELSE L

\* Buffer::flush, its effect on the data file (FileManager::write_block)
BufFlushDisk(buf, d) == IF BufWrites(buf) THEN [d EXCEPT ![buf.blk] = buf.page] ELSE d

\* the LSN carried by the image of each block in the data file
BufFlushLsn(buf, dl) == IF BufWrites(buf) THEN [dl EXCEPT ![buf.blk] = buf.lsn] ELSE dl

\* Buffer::set_modified
SetModified(buf, txnum, lsn) == [buf EXCEPT !.tx_num = txnum, !.lsn = lsn]

\* ---------------------------------------------------- buffer_manager.rs
\* The shared store an operation of the buffer manager works on: the pool,
\* the log manager it flushes through and the data file it writes to.
Store == [bufs |-> bufs, bm |-> bm, lg |-> lg, disk |-> disk, dlsn |-> ghost.dlsn]

SetStore(S) ==
    /\ bufs' = S.bufs
    /\ bm' = S.bm
    /\ lg' = S.lg
    /\ disk' = S.disk
    /\ ghost' = [ghost EXCEPT !.dlsn = S.dlsn]

\* BufferManager::new
NewBM == [unused |-> [i \in 1..NBufs |-> i],
          blk_to_buf |-> [b \in FileBlocks |-> NoBlk],
          num_available |-> NBufs,
          evict |-> <<>>]

Last(sq) == sq[Len(sq)]
Front(sq) == SubSeq(sq, 1, Len(sq) - 1)

\* SimpleEvictionPolicy::add
EvictAdd(frames, f) ==
    IF \E i \in 1..Len(frames) : frames[i] = f THEN frames ELSE Append(frames, f)

\* SimpleEvictionPolicy::remove
EvictRemove(frames, f) == SelectSeq(frames, LAMBDA x : x # f)

\* Buffer::flush of frame f
BufFlush(S, f) ==
    [S EXCEPT !.lg = BufFlushLog(S.bufs[f], @),
              !.disk = BufFlushDisk(S.bufs[f], @),
              !.dlsn = BufFlushLsn(S.bufs[f], @),
              !.bufs[f].dirty = IF BufWrites(S.bufs[f]) THEN FALSE ELSE @,
              !.bufs[f].chg = IF BufWrites(S.bufs[f]) THEN NoChange ELSE @]

\* (mutant) pin looks for a free frame in the unused list only
PinFrameUnusedOnly(S, b) ==
    IF S.bm.blk_to_buf[b] # NoBlk THEN S.bm.blk_to_buf[b]
    ELSE IF S.bm.unused # <<>> THEN Last(S.bm.unused)
    ELSE 0

\* the frame BufferManager::pin returns for block b: the frame holding b,
\* else unused.pop(), else eviction_policy.evict(); 0 when there is none
\* ("No available buffers")
PinFrame(S, b) ==
    IF S.bm.blk_to_buf[b] # NoBlk THEN S.bm.blk_to_buf[b]
    ELSE IF S.bm.unused # <<>> THEN Last(S.bm.unused)
    ELSE IF S.bm.evict # <<>> THEN Last(S.bm.evict)
    ELSE 0

\* (mutant) pin leaves the frame in the eviction policy's list
BMPinStaysEvictable(S, b) ==
    LET f == PinFrame(S, b) IN
    IF S.bm.blk_to_buf[b] # NoBlk
    THEN [S EXCEPT !.bm.num_available = IF S.bufs[f].pin_count > 0 THEN @ ELSE @ - 1,
                   !.bufs[f].pin_count = @ + 1]
    ELSE LET old == S.bufs[f].blk
             S1 == BufFlush(S, f)
         IN [S1 EXCEPT
                !.bm.unused = IF S.bm.unused # <<>> THEN Front(@) ELSE @,
                !.bm.blk_to_buf = [x \in FileBlocks |->
                                      IF x = b THEN f ELSE IF x = old THEN NoBlk ELSE @[x]],
                !.bm.num_available = @ - 1,
                !.bufs[f] = [@ EXCEPT !.page = S1.disk[b], !.blk = b, !.pin_count = 1,
                                      !.chg = NoChange]]

\* (mutant) pin maps the new block and keeps the mapping of the block that
\* the frame held
BMPinKeepsOldMapping(S, b) ==
    LET f == PinFrame(S, b) IN
    IF S.bm.blk_to_buf[b] # NoBlk
    THEN [S EXCEPT !.bm.num_available = IF S.bufs[f].pin_count > 0 THEN @ ELSE @ - 1,
                   !.bm.evict = EvictRemove(@, f),
                   !.bufs[f].pin_count = @ + 1]
    ELSE LET S1 == BufFlush(S, f)
         IN [S1 EXCEPT
                !.bm.unused = IF S.bm.unused # <<>> THEN Front(@) ELSE @,
                !.bm.evict = EvictRemove(IF S.bm.unused # <<>> THEN @ ELSE Front(@), f),
                !.bm.blk_to_buf[b] = f,
                !.bm.num_available = @ - 1,
                !.bufs[f] = [@ EXCEPT !.page = S1.disk[b], !.blk = b, !.pin_count = 1,
                                      !.chg = NoChange]]

\* BufferManager::pin, when a frame is found
BMPin(S, b) ==
    LET f == PinFrame(S, b) IN
    IF S.bm.blk_to_buf[b] # NoBlk
    THEN [S EXCEPT !.bm.num_available = IF S.bufs[f].pin_count > 0 THEN @ ELSE @ - 1,
                   !.bm.evict = EvictRemove(@, f),
                   !.bufs[f].pin_count = @ + 1]
    ELSE LET old == S.bufs[f].blk
             S1 == BufFlush(S, f)               \* assign_to_block: flush
         IN [S1 EXCEPT
                !.bm.unused = IF S.bm.unused # <<>> THEN Front(@) ELSE @,
                !.bm.evict = EvictRemove(IF S.bm.unused # <<>> THEN @ ELSE Front(@), f),
                !.bm.blk_to_buf = [x \in FileBlocks |->
                                      IF x = b THEN f ELSE IF x = old THEN NoBlk ELSE @[x]],
                !.bm.num_available = @ - 1,
                !.bufs[f] = [@ EXCEPT !.page = S1.disk[b],   \* get_block
                                      !.blk = b,
                                      !.pin_count = 1,
                                      !.chg = NoChange]]

\* (mutant) unpin_locked leaves the pin count as it is
BMUnpinKeepsCount(S, f) == S

\* (mutant) unpin_locked counts the frame as available at every unpin
BMUnpinAlwaysAvailable(S, f) ==
    LET c == S.bufs[f].pin_count - 1
        m == S.bm.blk_to_buf[S.bufs[f].blk]
    IN [S EXCEPT !.bufs[f].pin_count = c,
                 !.bm.evict = IF c = 0 /\ m # NoBlk THEN EvictAdd(@, m) ELSE @,
                 !.bm.num_available = @ + 1]

\* BufferManager::unpin / unpin_locked of frame f
BMUnpin(S, f) ==
    LET c == S.bufs[f].pin_count - 1
        m == S.bm.blk_to_buf[S.bufs[f].blk]
    IN [S EXCEPT !.bufs[f].pin_count = c,
                 !.bm.evict = IF c = 0 /\ m # NoBlk THEN EvictAdd(@, m) ELSE @,
                 !.bm.num_available = IF c = 0 THEN @ + 1 ELSE @]

\* BufferManager::flush_all, frames f..NBufs
RECURSIVE FlushFrom(_, _, _)
FlushFrom(S, f, txnum) ==
    IF f > NBufs THEN S
    ELSE FlushFrom(IF S.bufs[f].tx_num = txnum THEN BufFlush(S, f) ELSE S, f + 1, txnum)

\* BufferManager::flush_all
BMFlushAll(S, txnum) == FlushFrom(S, 1, txnum)

\* what a transaction finds in block b: the page of the frame holding it, or
\* the page of the data file
Visible(b) ==
    IF bm.blk_to_buf[b] # NoBlk THEN bufs[bm.blk_to_buf[b]].page ELSE disk[b]

\* ------------------------------------------------------- buffer_list.rs
\* BufferList::pin, after buf_mgr.pin returned frame f
BLPin(x, b, f) == [x EXCEPT !.pins = Append(@, b), !.bufOf[b] = f]

\* Vec::swap_remove
SwapRemove(sq, i) ==
    [j \in 1..(Len(sq) - 1) |-> IF j = i THEN sq[Len(sq)] ELSE sq[j]]

\* BufferList::unpin, after buf_mgr.unpin
BLUnpin(x, b) ==
    LET pos == CHOOSE i \in 1..Len(x.pins) :
                   x.pins[i] = b /\ \A j \in 1..(i - 1) : x.pins[j] # b
        rest == SwapRemove(x.pins, pos)
    IN [x EXCEPT !.pins = rest,
                 !.bufOf[b] = IF \E j \in 1..Len(rest) : rest[j] = b THEN @ ELSE 0]

\* ------------------------------------------------------- transaction.rs
MaxOps == 2        \* set calls a client makes in one transaction
MaxGets == 1       \* get calls a client makes in one transaction
MaxPins == 2       \* pins a client takes in one transaction
IntVals == {1, -2}                  \* values written by set_int
StrVals == {<<97>>, <<98, 99>>}     \* strings written by set_string

NoArg == [kind |-> "none", off |-> 0, val |-> 0, log |-> FALSE]

\* a thread without a Tx object.  wrote, lastv, img, clsn and out are
\* history: the blocks the transaction has written, the last i32 it wrote to
\* each, the page of each block as it was before the transaction's first
\* write to it, the LSN of its Commit record and how the transaction ended.
NoTx == [num |-> -1, pins |-> <<>>, bufOf |-> [b \in Blocks |-> 0], arg |-> NoArg,
         snap |-> <<>>, done |-> {}, ops |-> 0, gets |-> 0, k |-> 0,
         wrote |-> {}, lastv |-> [b \in Blocks |-> 0],
         img |-> [b \in Blocks |-> ZeroPage], clsn |-> 0, out |-> "none"]

\* Tx::new
TxNew(t) ==
    /\ pc[t] = "notx"
    /\ sys.mode = "run"
    /\ sys.txs > 0
    /\ tx' = [tx EXCEPT ![t] = [NoTx EXCEPT !.num = nextTx, !.ops = MaxOps,
                                                !.gets = MaxGets]]
    /\ nextTx' = nextTx + 1
    /\ sys' = [sys EXCEPT !.txs = @ - 1]
    /\ pc' = [pc EXCEPT ![t] = "idle"]
    /\ opn' = [opn EXCEPT ![t] = "none"]
    /\ UNCHANGED <<lockVars, blk, cmLocks, relLeft, rounds, batch, unitVars, bufs, bm, lg,
                   disk, ghost>>

\* the client goes on using the Tx object after its commit() has returned:
\* commit takes &mut self and leaves the object usable, with its tx_num
TxAgain(t) ==
    /\ pc[t] = "notx"
    /\ sys.mode = "run"
    /\ sys.txs > 0
    /\ tx[t].out = "commit"
    /\ tx' = [tx EXCEPT ![t].ops = MaxOps, ![t].gets = MaxGets]
    /\ sys' = [sys EXCEPT !.txs = @ - 1]
    /\ pc' = [pc EXCEPT ![t] = "idle"]
    /\ opn' = [opn EXCEPT ![t] = "none"]
    /\ UNCHANGED <<lockVars, blk, cmLocks, relLeft, rounds, batch, unitVars, nextTx, bufs, bm,
                   lg, disk, ghost>>

\* Tx::pin (BufferList::pin); the pool panics when no frame is left
TxPin(t, b) ==
    /\ pc[t] = "idle"
    /\ Len(tx[t].pins) < MaxPins
    /\ IF PinFrame(Store, b) = 0
       THEN /\ pc' = [pc EXCEPT ![t] = "panic"]
            /\ UNCHANGED <<tx, bufs, bm, lg, disk, ghost>>
       ELSE /\ SetStore(BMPin(Store, b))
            /\ tx' = [tx EXCEPT ![t] = BLPin(@, b, PinFrame(Store, b))]
            /\ pc' = pc
    /\ UNCHANGED <<lockVars, opn, blk, cmLocks, relLeft, rounds, batch, unitVars, nextTx, sys>>

\* Tx::unpin (BufferList::unpin) of a block the transaction has pinned
TxUnpin(t, b) ==
    /\ pc[t] = "idle"
    /\ tx[t].bufOf[b] # 0
    /\ SetStore(BMUnpin(Store, tx[t].bufOf[b]))
    /\ tx' = [tx EXCEPT ![t] = BLUnpin(@, b)]
    /\ UNCHANGED <<lockVars, thrVars, unitVars, nextTx, sys>>

\* Tx::get_int on a pinned block, up to the lock table call of
\* ConcurrencyManager::slock (no call when the block is locked already)
TxGetInt(t, b) ==
    /\ pc[t] = "idle"
    /\ tx[t].gets > 0
    /\ tx[t].bufOf[b] # 0
    /\ opn' = [opn EXCEPT ![t] = "get_int"]
    /\ blk' = [blk EXCEPT ![t] = b]
    /\ pc' = [pc EXCEPT ![t] = IF cmLocks[t][b] = "N" THEN "s_map" ELSE "body"]
    /\ tx' = [tx EXCEPT ![t].gets = @ - 1, ![t].arg = [NoArg EXCEPT !.kind = "int"]]
    /\ UNCHANGED <<lockVars, cmLocks, relLeft, rounds, batch, unitVars, nextTx, bufs, bm, lg,
                   disk, sys, ghost>>

\* (mutant) get_int gives its lock back when it returns
BodyNextReleases(t) == IF opn[t] = "get_int" THEN "rel" ELSE "idle"

\* where get_int, set_int and set_string return to: the client
BodyNext(t) == "idle"

\* Tx::get_int, the read of the buffer's page
GetBody(t) ==
    /\ pc[t] = "body"
    /\ opn[t] = "get_int"
    /\ pc' = [pc EXCEPT ![t] = BodyNext(t)]
    /\ UNCHANGED <<lockVars, opn, blk, cmLocks, relLeft, rounds, batch, unitVars, dbVars>>

\* ConcurrencyManager::xlock as called by set_int / set_string on block b
XlockEntry(t, b) ==
    IF has_xlock(t, b) THEN "body" ELSE IF cmLocks[t][b] = "N" THEN "s_map" ELSE "x_map"

\* Tx::set_int / set_string on a pinned block, up to the first lock table call
CallSet(t, b, a) ==
    /\ pc[t] = "idle"
    /\ tx[t].ops > 0
    /\ tx[t].bufOf[b] # 0
    /\ opn' = [opn EXCEPT ![t] = "set"]
    /\ blk' = [blk EXCEPT ![t] = b]
    /\ pc' = [pc EXCEPT ![t] = XlockEntry(t, b)]
    /\ tx' = [tx EXCEPT ![t].ops = @ - 1, ![t].arg = a]
    /\ UNCHANGED <<lockVars, cmLocks, relLeft, rounds, batch, unitVars, nextTx, bufs, bm, lg,
                   disk, sys, ghost>>

\* Tx::set_int(blk, IntOff, v, true)
TxSetInt(t, b, v) ==
    CallSet(t, b, [kind |-> "int", off |-> IntOff, val |-> v, log |-> TRUE])

\* Tx::set_string(blk, StrOff, str, true)
TxSetString(t, b, str) ==
    CallSet(t, b, [kind |-> "str", off |-> StrOff, val |-> str, log |-> TRUE])

\* (mutant) the record is built after buf.page.write: it holds the new value
SetRecAfterWrite(x, buf, a) ==
    Rec(IF a.kind = "int" THEN "SetInt" ELSE "SetString", x.num, buf.blk, a.off, a.val)

\* the record log_set_int / log_set_string build: the value now at the offset
SetRec(x, buf, a) ==
    IF a.kind = "int"
    THEN Rec("SetInt", x.num, buf.blk, a.off, ReadI32(buf.page, a.off))
    ELSE Rec("SetString", x.num, buf.blk, a.off, ReadStr(buf.page, a.off))

\* buf.page.write(val, offset)
PageWrite(pg, a) ==
    IF a.kind = "int" THEN WriteI32(pg, a.off, a.val) ELSE WriteStr(pg, a.off, a.val)

\* Tx::set_int / set_string under the buffer's write lock: log the old
\* value if ok_to_log, write the page, set_modified.  A call made by
\* LogRecord::undo goes on to unpin the block.
SetBody(t) ==
    /\ pc[t] = "body"
    /\ opn[t] \in XOps
    /\ LET b == blk[t]
           f == tx[t].bufOf[b]
           a == tx[t].arg
           lg1 == IF a.log THEN LogAppend(lg, SetRec(tx[t], bufs[f], a)) ELSE lg
           lsn == IF a.log THEN lg1.latest_lsn ELSE -1
       IN /\ lg' = lg1
          /\ bufs' = [bufs EXCEPT ![f] =
                SetModified([@ EXCEPT !.page = PageWrite(@, a), !.dirty = TRUE,
                                      !.chg[a.kind] = lsn],
                            tx[t].num, lsn)]
          /\ tx' = [tx EXCEPT
                ![t].wrote = @ \cup {b},
                ![t].lastv[b] = IF a.kind = "int" THEN a.val ELSE @,
                ![t].img[b] = IF b \in tx[t].wrote THEN @ ELSE bufs[f].page]
    /\ pc' = [pc EXCEPT ![t] = IF opn[t] = "set" THEN BodyNext(t) ELSE "undo_unpin"]
    /\ UNCHANGED <<lockVars, opn, blk, cmLocks, relLeft, rounds, batch, unitVars, nextTx, bm,
                   disk, sys, ghost>>

\* Tx::commit, buffer_mgr.flush_all(tx_num)
TxCommit(t) ==
    /\ pc[t] = "idle"
    /\ SetStore(BMFlushAll(Store, tx[t].num))
    /\ opn' = [opn EXCEPT ![t] = "commit"]
    /\ pc' = [pc EXCEPT ![t] = "c_log"]
    /\ UNCHANGED <<lockVars, blk, cmLocks, relLeft, rounds, batch, unitVars, tx, nextTx, sys>>

\* ConcurrencyManager::release, the keys of self.locks
LockedBlocks(t) == {b \in Blocks : cmLocks[t][b] # "N"}

\* Tx::commit, the Commit record; then release() is entered
CommitLog(t) ==
    /\ pc[t] = "c_log"
    /\ lg' = LogAppend(lg, Rec("Commit", tx[t].num, 0, 0, 0))
    /\ tx' = [tx EXCEPT ![t].clsn = lg'.latest_lsn]
    /\ relLeft' = [relLeft EXCEPT ![t] = LockedBlocks(t)]
    /\ pc' = [pc EXCEPT ![t] = "rel"]
    /\ UNCHANGED <<lockVars, opn, blk, cmLocks, rounds, batch, unitVars, nextTx,
                   bufs, bm, disk, sys, ghost>>

\* the Tx object when commit / rollback returns: BufferList cleared
Ended(x, how) ==
    [x EXCEPT !.pins = <<>>, !.bufOf = [b \in Blocks |-> 0], !.k = 0, !.out = how]

\* the committed values when commit / rollback of x returns: the values of
\* the latest Commit record win
Committed(x, how, g) ==
    LET new(b) == how = "commit" /\ b \in x.wrote /\ x.clsn > g.cAt[b] IN
    [g EXCEPT !.cInt = [b \in Blocks |-> IF new(b) THEN x.lastv[b] ELSE @[b]],
              !.cAt = [b \in Blocks |-> IF new(b) THEN x.clsn ELSE @[b]],
              !.maybe = [b \in Blocks |-> IF new(b) THEN {} ELSE @[b]]]

\* BufferList::unpin_all: one iteration of the loop over pins; after the
\* last one buffers and pins are cleared and commit / rollback returns
UnpinAll(t) ==
    /\ pc[t] = "unpin_all"
    /\ LET n == Len(tx[t].pins)
           S == IF n = 0 THEN Store
                ELSE BMUnpin(Store, tx[t].bufOf[tx[t].pins[tx[t].k + 1]])
       IN /\ bufs' = S.bufs
          /\ bm' = S.bm
          /\ IF tx[t].k + 1 < n
             THEN /\ tx' = [tx EXCEPT ![t].k = @ + 1]
                  /\ pc' = pc
                  /\ ghost' = ghost
             ELSE /\ tx' = [tx EXCEPT ![t] = Ended(@, opn[t])]
                  /\ pc' = [pc EXCEPT ![t] = "notx"]
                  /\ ghost' = Committed(tx[t], opn[t], ghost)
    /\ UNCHANGED <<lockVars, opn, blk, cmLocks, relLeft, rounds, batch, unitVars, nextTx, lg,
                   disk, sys>>

\* Tx::rollback, log_mgr.snapshot()
TxRollback(t) ==
    /\ pc[t] = "idle"
    /\ lg' = LogFlushAll(lg)
    /\ tx' = [tx EXCEPT ![t].snap = SnapshotRecs(LogFlushAll(lg))]
    /\ opn' = [opn EXCEPT ![t] = "rollback"]
    /\ pc' = [pc EXCEPT ![t] = "scan"]
    /\ UNCHANGED <<lockVars, blk, cmLocks, relLeft, rounds, batch, unitVars, nextTx, bufs, bm,
                   disk, sys, ghost>>

\* what the loop of rollback does with record r: "break", "undo" or "skip"
RollbackMatch(x, r) ==
    IF r.type = "Start" /\ r.tx = x.num THEN "break"
    ELSE IF r.type \in {"SetInt", "SetString"} /\ r.tx = x.num THEN "undo"
    ELSE "skip"

\* what the loop of recover does with record r
RecoverMatch(x, r) ==
    IF r.type = "Checkpoint" THEN "break"
    ELSE IF r.type \in {"Commit", "Rollback"} THEN "done"
    ELSE IF r.type \in {"SetInt", "SetString"} /\ r.tx \notin x.done THEN "undo"
    ELSE "skip"

\* the argument of the set_int / set_string call LogRecord::undo makes
UndoArg(r) ==
    [kind |-> IF r.type = "SetInt" THEN "int" ELSE "str",
     off |-> r.off, val |-> r.val, log |-> FALSE]

\* bincode::deserialize::<LogRecord> reads the u32 variant tag first: a byte
\* slice shorter than the tag gives Err, which expect() turns into a panic
Undecodable(r) == r.type = "Bytes" /\ Len(r.val) < 4

\* what the loop does with record r
Match(x, how, r) ==
    IF r.type = "BadRead" \/ Undecodable(r) THEN "panic"
    ELSE IF how = "rollback" THEN RollbackMatch(x, r)
    ELSE RecoverMatch(x, r)

\* the loop over the snapshot run up to the first record that makes it do
\* more than continue: skipped records are consumed, Commit / Rollback
\* records met by recover are pushed on completed_txs
RECURSIVE ScanOn(_, _)
ScanOn(x, how) ==
    IF x.snap = <<>> THEN x
    ELSE LET m == Match(x, how, Head(x.snap)) IN
         IF m = "skip" THEN ScanOn([x EXCEPT !.snap = Tail(@)], how)
         ELSE IF m = "done"
         THEN ScanOn([x EXCEPT !.snap = Tail(@), !.done = @ \cup {Head(x.snap).tx}], how)
         ELSE x

\* the loop over the snapshot in rollback / recover, up to and including
\* the next call that takes a mutex: LogRecord::undo pins the block and
\* enters set_int / set_string; at a break or at the end of the snapshot
\* the loop is left
Scan(t) ==
    /\ pc[t] = "scan"
    /\ LET x == ScanOn(tx[t], opn[t])
           r == Head(x.snap)
       IN IF x.snap = <<>> \/ Match(x, opn[t], r) = "break"
          THEN /\ pc' = [pc EXCEPT ![t] = "flush"]
               /\ tx' = [tx EXCEPT ![t] = x]
               /\ UNCHANGED <<blk, bufs, bm, lg, disk, ghost>>
          ELSE IF Match(x, opn[t], r) = "panic" \/ PinFrame(Store, r.blk) = 0
          THEN /\ pc' = [pc EXCEPT ![t] = "panic"]
               /\ tx' = [tx EXCEPT ![t] = x]
               /\ UNCHANGED <<blk, bufs, bm, lg, disk, ghost>>
          ELSE /\ SetStore(BMPin(Store, r.blk))
               /\ tx' = [tx EXCEPT ![t] =
                     [BLPin(x, r.blk, PinFrame(Store, r.blk)) EXCEPT !.arg = UndoArg(r)]]
               /\ blk' = [blk EXCEPT ![t] = r.blk]
               /\ pc' = [pc EXCEPT ![t] = XlockEntry(t, r.blk)]
    /\ UNCHANGED <<lockVars, opn, cmLocks, relLeft, rounds, batch, unitVars, nextTx, sys>>

\* LogRecord::undo, tx.unpin(block); the loop goes on with the next record
UndoUnpin(t) ==
    /\ pc[t] = "undo_unpin"
    /\ SetStore(BMUnpin(Store, tx[t].bufOf[blk[t]]))
    /\ tx' = [tx EXCEPT ![t] = [BLUnpin(@, blk[t]) EXCEPT !.snap = Tail(@)]]
    /\ pc' = [pc EXCEPT ![t] = "scan"]
    /\ UNCHANGED <<lockVars, opn, blk, cmLocks, relLeft, rounds, batch, unitVars, nextTx, sys>>

\* rollback / recover, buffer_mgr.flush_all(tx_num) after the loop
ScanFlush(t) ==
    /\ pc[t] = "flush"
    /\ SetStore(BMFlushAll(Store, tx[t].num))
    /\ pc' = [pc EXCEPT ![t] = "end_log"]
    /\ UNCHANGED <<lockVars, opn, blk, cmLocks, relLeft, rounds, batch, unitVars, tx, nextTx, sys>>

\* Tx::append_to_log_and_flush
AppendAndFlush(L, r) == LogFlush(LogAppend(L, r), LogAppend(L, r).latest_lsn)

\* rollback: the Rollback record, then release() is entered; recover: the Checkpoint
\* record, then recover returns and the database is open
EndLog(t) ==
    /\ pc[t] = "end_log"
    /\ IF opn[t] = "rollback"
       THEN /\ lg' = AppendAndFlush(lg, Rec("Rollback", tx[t].num, 0, 0, 0))
            /\ relLeft' = [relLeft EXCEPT ![t] = LockedBlocks(t)]
            /\ pc' = [pc EXCEPT ![t] = "rel"]
            /\ UNCHANGED <<tx, sys>>
       ELSE /\ lg' = AppendAndFlush(lg, Rec("Checkpoint", -1, 0, 0, 0))
            /\ pc' = [pc EXCEPT ![t] = "idle"]
            /\ tx' = [tx EXCEPT ![t].out = "recovered"]
            /\ sys' = [sys EXCEPT !.mode = "run"]
            /\ relLeft' = relLeft
    /\ UNCHANGED <<lockVars, opn, blk, cmLocks, rounds, batch, unitVars, nextTx, bufs,
                   bm, disk, ghost>>

\* ------------------------------------------------- crash and restart
\* The process dies and is started again on the same directories: the data
\* file and the log file keep what was written to them, everything else is
\* constructed anew (LogManager::new, BufferManager::new, LockTable::new,
\* NEXT_TRANSACTION_NUM = 0).  InFlight(b) are the values of block b written
\* by transactions whose commit() had appended its Commit record and not yet
\* returned: a recovery may keep or undo them.
InFlight(b) ==
    {tx[t].lastv[b] : t \in {u \in Threads :
        opn[u] = "commit" /\ pc[u] \in {"rel", "unpin_all"} /\ b \in tx[u].wrote}}

Crash ==
    /\ sys.crashes > 0
    /\ count' = [b \in Blocks |-> NoLock]
    /\ waitq' = [b \in Blocks |-> {}]
    /\ pc' = [t \in Threads |-> IF pc[t] = "off" THEN "off" ELSE "notx"]
    /\ opn' = [t \in Threads |-> "none"]
    /\ blk' = [t \in Threads |-> 1]
    /\ cmLocks' = [t \in Threads |-> NoLocks]
    /\ relLeft' = [t \in Threads |-> {}]
    /\ tx' = [t \in Threads |-> NoTx]
    /\ nextTx' = 0
    /\ bufs' = [f \in Frames |-> NewBuffer]
    /\ bm' = NewBM
    /\ lg' = LogNew(lg.file)
    /\ sys' = [sys EXCEPT !.crashes = @ - 1, !.mode = "down"]
    /\ ghost' = [ghost EXCEPT !.cAt = [b \in Blocks |-> 0],
                              !.maybe = [b \in Blocks |-> @[b] \cup InFlight(b)]]
    /\ UNCHANGED <<rounds, batch, unitVars, disk>>

\* the thread that runs recovery after a restart
RecoveryThread == 1

\* Tx::new followed by Tx::recover up to its loop: flush_all(tx_num), then
\* log_mgr.snapshot().  No other transaction exists until recover returns.
RecoverStart(t) ==
    /\ pc[t] = "notx"
    /\ t = RecoveryThread
    /\ sys.mode = "down"
    /\ SetStore([BMFlushAll(Store, nextTx) EXCEPT !.lg = LogFlushAll(@)])
    /\ tx' = [tx EXCEPT ![t] =
          [NoTx EXCEPT !.num = nextTx,
                       !.snap = SnapshotRecs(LogFlushAll(BMFlushAll(Store, nextTx).lg))]]
    /\ nextTx' = nextTx + 1
    /\ sys' = [sys EXCEPT !.mode = "recovering"]
    /\ opn' = [opn EXCEPT ![t] = "recover"]
    /\ pc' = [pc EXCEPT ![t] = "scan"]
    /\ UNCHANGED <<lockVars, blk, cmLocks, relLeft, rounds, batch, unitVars>>

\* ------------------------------------- log_manager.rs, called directly
\* Clients that call LogManager::append / flush / snapshot themselves (the
\* pattern of test_append_records and test_multi_snapshot): any thread
\* appends through the mutex, snapshots are iterated one next() at a time,
\* and the process may be restarted on the same directory.
MaxAppends == 4    \* records appended over all lifetimes
NLogThreads == 2   \* threads that append to the log
LogThreads == 1..NLogThreads
MaxSnaps == 2      \* snapshots taken in one lifetime
MaxRestarts == 1   \* restarts of the log manager
SmallLen == 16     \* the record length of the tests
\* the longest record that one page holds behind its frontier
BigLen == LogPageSize - FRONTIER_START - RecordLengthSize
RecLens == {SmallLen, BigLen}
\* the shortest record that passes append's size check and that no page holds
LongLen == BigLen + 1

\* record number i of the client: len bytes i % 256
BytesRec(i, len) == Rec("Bytes", 0, 0, 0, [k \in 1..len |-> i % 256])

\* a byte slice that is no serialized LogRecord
Garbage == BytesRec(255, 2)

\* the log up to its current page holds no Garbage record
NoGarbage(L) ==
    /\ \A n \in 1..Len(L.file) : \A k \in 1..Len(L.file[n]) : L.file[n][k].type # "Bytes"
    /\ \A k \in 1..Len(L.page) : L.page[k].type # "Bytes"

\* log_mgr.append(&bytes) of a component that shares the log with the
\* transactions, between two transactions of the client
AppendBytes(t) ==
    /\ pc[t] = "notx"
    /\ sys.mode = "run"
    /\ NoGarbage(lg)
    /\ lg' = LogAppend(lg, Garbage)
    /\ UNCHANGED <<lockVars, thrVars, unitVars, tx, nextTx, bufs, bm, disk, sys, ghost>>

\* no client has called the log manager yet
NoLogTest ==
    [hist |-> <<>>,          \* records appended in this lifetime, in order
     old |-> <<>>,           \* records appended in earlier lifetimes
     sound |-> TRUE,         \* every record of old was flushed before its restart
     flushed |-> TRUE,       \* a flush or snapshot call covered every record of hist
     callers |-> {},         \* the threads that have appended in this lifetime
     last |-> 0,             \* the lsn of flush(lsn), if that was the last call
     snaps |-> <<>>,         \* the LogManagerSnapshot objects
     dead |-> FALSE,         \* a call panicked holding the log manager's mutex
     appends |-> MaxAppends, restarts |-> MaxRestarts]

\* LogManager::append up to its page writes: the log manager when the
\* writes begin
LogAppendPage(L, len) ==
    IF Frontier(L.page) + len + RecordLengthSize >= LogPageSize
    THEN LogAppendBlock(LogFlushAll(L))
    ELSE L

\* Page::write_bytes / Page::write index the page array beyond its end and
\* panic
AppendOverflows(L, len) ==
    Frontier(LogAppendPage(L, len).page) + len + RecordLengthSize > LogPageSize

\* lm.append(&record) by thread t, holding the mutex of the log manager
\* A record that does not fit behind the frontier of the page the writes
\* go to makes a page write panic: the frontier and latest_lsn stay, the
\* bytes written behind the frontier belong to no record.
LogTAppend(t, len) ==
    /\ logt.appends > 0
    /\ ~logt.dead
    /\ len < LogPageSize
    /\ LET r == BytesRec(Len(logt.old) + Len(logt.hist), len)
           L == LogAppend(lg, r)
       IN IF AppendOverflows(lg, len)
          THEN /\ lg' = LogAppendPage(lg, len)
               /\ logt' = [logt EXCEPT !.dead = TRUE,
                                       !.last = 0,
                                       !.appends = @ - 1]
          ELSE /\ lg' = L
               /\ logt' = [logt EXCEPT !.hist = Append(@, [r EXCEPT !.lsn = L.latest_lsn]),
                                       !.flushed = FALSE,
                                       !.last = 0,
                                       !.callers = @ \cup {t},
                                       !.appends = @ - 1]
    /\ UNCHANGED logFrame

\* lm.flush(lsn) with an LSN that append returned
LogTFlush(lsn) ==
    /\ ~logt.dead
    /\ \E k \in 1..Len(logt.hist) : logt.hist[k].lsn = lsn
    /\ lg' = LogFlush(lg, lsn)
    /\ logt' = [logt EXCEPT !.flushed = @ \/ lsn = lg.latest_lsn, !.last = lsn]
    /\ UNCHANGED logFrame

\* (mutant) the iterator takes the log manager's current page for every block
SnapLoadCurrent(L, n) == L.page

\* the page get_block loads for the iterator from block n (numbered from 1)
SnapLoad(L, n) == L.file[n]

\* lm.snapshot(): flush_all, then an iterator on a copy of the current block
\* read back from the file, its cursor at the frontier.  `expect` and
\* `fixed` are bookkeeping: the records appended so far, and what the
\* iterator would yield if it were run to its end right now.
LogTSnapshot ==
    /\ Len(logt.snaps) < MaxSnaps
    /\ ~logt.dead
    /\ LET L == LogFlushAll(lg)
           page == SnapLoad(L, L.block_num + 1)
       IN /\ lg' = L
          /\ logt' = [logt EXCEPT
                !.flushed = TRUE,
                !.last = 0,
                !.snaps = Append(@, [blk |-> L.block_num + 1, page |-> page,
                                     pos |-> Len(L.page), out |-> <<>>, st |-> "live",
                                     expect |-> logt.old \o logt.hist,
                                     fixed |-> SnapshotRecs(L)])]
    /\ UNCHANGED logFrame

\* LogManagerSnapshot::next on iterator state s over the log file of L:
\* at the start of its page it moves to the previous block (None at block
\* 0) and loads it; then it reads the record before the cursor
SnapNext(s, L) ==
    IF s.pos > 0
    THEN [s EXCEPT !.out = Append(@, s.page[s.pos]), !.pos = @ - 1]
    ELSE IF s.blk = 1 THEN [s EXCEPT !.st = "end"]
    ELSE LET page == SnapLoad(L, s.blk - 1) IN
         IF page = <<>>
         THEN [s EXCEPT !.blk = @ - 1, !.page = page, !.out = Append(@, BadRead),
                        !.st = "panic"]
         ELSE [s EXCEPT !.blk = @ - 1, !.page = page,
                        !.out = Append(@, page[Len(page)]), !.pos = Len(page) - 1]

\* one next() call on snapshot i
LogTNext(i) ==
    /\ i \in 1..Len(logt.snaps)
    /\ logt.snaps[i].st = "live"
    /\ logt' = [logt EXCEPT !.snaps[i] = SnapNext(@, lg)]
    /\ UNCHANGED <<logFrame, lg>>

\* the process ends (what the log page held only in memory is gone) and a
\* new LogManager is created on the same directory
LogTRestart ==
    /\ logt.restarts > 0
    /\ lg' = LogNew(lg.file)
    /\ logt' = [logt EXCEPT !.old = @ \o logt.hist, !.hist = <<>>,
                            !.sound = @ /\ logt.flushed,
                            !.flushed = TRUE,
                            !.last = 0,
                            !.callers = {},
                            !.snaps = <<>>,
                            !.dead = FALSE,
                            !.restarts = @ - 1]
    /\ UNCHANGED logFrame


\* ---------------------------------- buffer_manager.rs, called directly
\* A client that calls BufferManager::pin / unpin itself (the pattern of
\* buffer_manager.rs tests::test): it keeps the handle every pin returned
\* and unpins each handle once.
MaxPoolPins == 4   \* pin calls of the client
MaxPoolFails == 1  \* pin calls that found no frame
MaxPoolWrites == 2 \* page writes of the client

\* the client holds no handle
NoPoolTest == [held |-> [f \in Frames |-> 0],   \* handles held, per frame
               gone |-> {},                     \* blocks evicted and not loaded again
               exp |-> [b \in FileBlocks |-> 0], \* the i32 last written to each block
               writes |-> 0,
               fails |-> 0,                     \* pins that panicked
               pins |-> MaxPoolPins]

\* bm.pin(&blk): a handle on the frame, or the panic "No available buffers",
\* which is raised before anything is changed
PoolPin(b) ==
    /\ pool.pins > 0
    /\ IF PinFrame(Store, b) = 0
       THEN /\ pool.fails < MaxPoolFails
            /\ pool' = [pool EXCEPT !.fails = @ + 1, !.pins = @ - 1]
            /\ UNCHANGED <<bufs, bm, lg, disk, ghost>>
       ELSE /\ SetStore(BMPin(Store, b))
            /\ pool' = [pool EXCEPT
                  !.held[PinFrame(Store, b)] = @ + 1,
                  !.gone = IF bm.blk_to_buf[b] # NoBlk THEN @
                           ELSE (@ \ {b}) \cup ({bufs[PinFrame(Store, b)].blk} \ {NoBlk}),
                  !.pins = @ - 1]
    /\ UNCHANGED poolFrame

\* buf.write().page.write(v, 0) through a handle on frame f (the pattern of
\* test_parallel_pins: no set_modified)
PoolWrite(f, v) ==
    /\ pool.held[f] > 0
    /\ pool.writes < MaxPoolWrites
    /\ bufs' = [bufs EXCEPT ![f].page = WriteI32(@, IntOff, v), ![f].dirty = TRUE]
    /\ pool' = [pool EXCEPT !.exp[bufs[f].blk] = v, !.writes = @ + 1]
    /\ UNCHANGED <<poolFrame, bm, lg, disk, ghost>>

\* bm.unpin(handle) with a handle on frame f
PoolUnpin(f) ==
    /\ pool.held[f] > 0
    /\ SetStore(BMUnpin(Store, f))
    /\ pool' = [pool EXCEPT !.held[f] = @ - 1]
    /\ UNCHANGED poolFrame


\* ------------------------------------- file_manager.rs, called directly
\* A client that calls FileManager::append_block / write_block / get_block /
\* length itself (the pattern of
\* test_append_read_write_multiple_files_serial); the process may be
\* restarted, which gives a new FileManager on the same directory.
NFmFiles == 2        \* files of the directory
MaxFmBlocks == 2     \* blocks appended to one file
NFmVals == 2         \* different page contents written
MaxFmRestarts == 1   \* restarts
FmFiles == 1..NFmFiles
FmVals == 1..NFmVals
FmNums == 0..MaxFmBlocks       \* block numbers asked for

NoFmTest ==
    [dir |-> [id \in FmFiles |-> NoFile],   \* the files on disk
     open |-> {},                           \* FileManager.files
     exp |-> [id \in FmFiles |-> <<>>],     \* the page last stored in each block
     wr |-> {},                             \* the blocks write_block has written
     page |-> 0,                            \* the caller's page before its get_block
     last |-> [op |-> "none", id |-> 0, num |-> 0, ret |-> 0],
     restarts |-> MaxFmRestarts]

FmOf(x) == [dir |-> x.dir, open |-> x.open]
FmSet(x, F) == [x EXCEPT !.dir = F.dir, !.open = F.open]

\* file_mgr.append_block(&file, &page)
FmAppend(id, page) ==
    /\ Len(fm.exp[id]) < MaxFmBlocks
    /\ fm' = [FmSet(fm, AppendBlock(FmOf(fm), id, page)) EXCEPT
                 !.exp[id] = Append(@, page),
                 !.last = [op |-> "append", id |-> id, num |-> Len(fm.exp[id]),
                           ret |-> AppendBlockNum(FmOf(fm), id)]]
    /\ UNCHANGED fmFrame

\* file_mgr.write_block(&blk, &page); a panic changes nothing
FmWrite(id, num, page) ==
    /\ fm' = IF WriteBlockOk(FmOf(fm), id, num)
             THEN [FmSet(fm, WriteBlock(FmOf(fm), id, num, page)) EXCEPT
                      !.exp[id][num + 1] = page,
                      !.wr = @ \cup {<<id, num>>},
                      !.last = [op |-> "write", id |-> id, num |-> num, ret |-> page]]
             ELSE [fm EXCEPT !.last = [op |-> "panic", id |-> id, num |-> num, ret |-> 0]]
    /\ UNCHANGED fmFrame

\* file_mgr.get_block(&blk, &mut page) into a page of Page::new()
FmGet(id, num) ==
    /\ fm' = [FmSet(fm, GetOrCreateFile(FmOf(fm), id)) EXCEPT
                 !.last = [op |-> "get", id |-> id, num |-> num,
                           ret |-> GetBlockPage(FmOf(fm), id, num, 0)]]
    /\ UNCHANGED fmFrame

\* file_mgr.get_block(&blk, &mut page) into a page that holds `page`
FmGetInto(id, num, page) ==
    /\ fm' = [FmSet(fm, GetOrCreateFile(FmOf(fm), id)) EXCEPT
                 !.page = page,
                 !.last = [op |-> "get_into", id |-> id, num |-> num,
                           ret |-> GetBlockPage(FmOf(fm), id, num, page)]]
    /\ UNCHANGED fmFrame

\* file_mgr.length(&file)
FmLen(id) ==
    /\ fm' = [fm EXCEPT !.last = [op |-> "length", id |-> id, num |-> 0,
                                  ret |-> FmLength(id \in fm.open, fm.dir[id])]]
    /\ UNCHANGED fmFrame

\* the process ends and FileManager::new is called on the same directory
FmRestart ==
    /\ fm.restarts > 0
    /\ fm' = [fm EXCEPT !.open = {}, !.restarts = @ - 1,
                        !.last = [op |-> "none", id |-> 0, num |-> 0, ret |-> 0]]
    /\ UNCHANGED fmFrame


\* -------------------------------------------- layout.rs, record_page.rs
\* A RecordPage over one block of the data file, with the schema of one i32
\* field "A", used by one transaction that holds the block's lock; the page
\* is the block's image in the transaction's buffer and log the SetInt
\* records that the transaction's logged writes append.
EMPTY == 0
USED == 1
LAYOUT_START == 4
RpPageLen == 26        \* Tx::block_size of the record page's file
MaxRpCalls == 6        \* calls made by the record page's client
MaxRpSets == 1         \* calls of set_int among them
MaxRpFormats == 1      \* calls of format among them

\* Layout::from_schema: the flag, then Layout::byte_length of the i32 field
RpSlotSize == LAYOUT_START + I32Size
\* Layout::offset("A")
RpFieldOff == LAYOUT_START

\* RecordPage::offset
RpOffset(slot) == RpSlotSize * slot

\* RecordPage::is_valid_slot
IsValidSlot(slot) == RpOffset(slot + 1) <= RpPageLen

\* the slots of a page, and the slot arguments the client passes to
\* insert_after and next_after
RpSlots == {slot \in 0..RpPageLen : IsValidSlot(slot)}
RpAfter == (-1)..Cardinality(RpSlots)

\* RecordPage::get_flag
GetFlag(pg, slot) == ReadI32(pg, RpOffset(slot))

\* the loop of RecordPage::search_after, from its current slot on
RECURSIVE SearchFrom(_, _, _)
SearchFrom(pg, slot, flag) ==
    IF ~IsValidSlot(slot) THEN -1
    ELSE IF GetFlag(pg, slot) = flag THEN slot
    ELSE SearchFrom(pg, slot + 1, flag)

SearchAfterAnyFlag(pg, slot, flag) ==
    IF IsValidSlot(slot + 1) THEN slot + 1 ELSE -1

\* RecordPage::search_after
SearchAfter(pg, slot, flag) == SearchFrom(pg, slot + 1, flag)

\* RecordPage::next_after
NextAfter(pg, slot) == SearchAfter(pg, slot, USED)

\* Tx::set_int(blk, off, val, ok_to_log) on the record page's block: the
\* SetInt record with the old value if ok_to_log, then the page write
RpTxSetInt(R, off, val, ok_to_log) ==
    [R EXCEPT !.page = WriteI32(R.page, off, val),
              !.log = IF ok_to_log
                      THEN Append(R.log, Rec("SetInt", 1, 1, off, ReadI32(R.page, off)))
                      ELSE R.log]

\* (mutant) set_flag passes ok_to_log = false
SetFlagUnlogged(R, slot, flag) == RpTxSetInt(R, RpOffset(slot), flag, FALSE)

\* RecordPage::set_flag
SetFlag(R, slot, flag) == RpTxSetInt(R, RpOffset(slot), flag, TRUE)

\* the body of the loop of RecordPage::format for the slots from `slot` on
RECURSIVE FormatFrom(_, _)
FormatFrom(R, slot) ==
    IF ~IsValidSlot(slot) THEN R
    ELSE FormatFrom(
            RpTxSetInt(RpTxSetInt(R, RpOffset(slot), EMPTY, FALSE),
                       RpOffset(slot) + RpFieldOff, 0, FALSE),
            slot + 1)

\* the block that Tx::append gave the record page (Page::new), no call made
NoRpTest ==
    [page |-> [i \in 1..RpPageLen |-> 0],
     log |-> <<>>,
     n |-> 0,          \* calls of insert_after on the formatted page
     ok |-> 0,         \* those that returned a slot
     k |-> 0,          \* calls of delete on a USED slot of the formatted page
     calls |-> 0,      \* calls made
     sets |-> 0,       \* calls of set_int
     formats |-> 0,    \* calls of format
     last |-> [op |-> "none", arg |-> 0, ret |-> 0]]

\* RecordPage::insert_after
RpInsertAfter(slot) ==
    /\ rp.calls < MaxRpCalls
    /\ LET new_slot == SearchAfter(rp.page, slot, EMPTY)
           R == IF new_slot # -1 THEN SetFlag(rp, new_slot, USED) ELSE rp
       IN rp' = [R EXCEPT !.n = @ + 1, !.calls = @ + 1,
                          !.ok = IF new_slot # -1 THEN @ + 1 ELSE @,
                          !.last = [op |-> "insert_after", arg |-> slot,
                                    ret |-> new_slot]]
    /\ UNCHANGED rpFrame

\* RecordPage::delete
RpDelete(slot) ==
    /\ rp.calls < MaxRpCalls
    /\ rp' = [SetFlag(rp, slot, EMPTY) EXCEPT
                !.calls = @ + 1,
                !.k = IF GetFlag(rp.page, slot) = USED THEN @ + 1 ELSE @,
                !.last = [op |-> "delete", arg |-> slot, ret |-> 0]]
    /\ UNCHANGED rpFrame

\* RecordPage::set_int on field "A"; the call asserts that the slot is USED
RpSetInt(slot, val) ==
    /\ rp.calls < MaxRpCalls
    /\ rp.sets < MaxRpSets
    /\ GetFlag(rp.page, slot) = USED
    /\ rp' = [RpTxSetInt(rp, RpOffset(slot) + RpFieldOff, val, TRUE) EXCEPT
                !.sets = @ + 1, !.calls = @ + 1,
                !.last = [op |-> "set_int", arg |-> slot, ret |-> 0]]
    /\ UNCHANGED rpFrame

\* RecordPage::format; the counts of insert_after and delete start again on
\* the formatted page
RpFormat ==
    /\ rp.calls < MaxRpCalls
    /\ rp.formats < MaxRpFormats
    /\ rp' = [FormatFrom(rp, 0) EXCEPT
                !.n = 0, !.ok = 0, !.k = 0,
                !.formats = @ + 1, !.calls = @ + 1,
                !.last = [op |-> "format", arg |-> 0, ret |-> 0]]
    /\ UNCHANGED rpFrame

\* ------------------------------------------------ index/btree/btree_page.rs
\* A B-tree page as the one transaction that uses the index sees it through
\* Tx::get_int / Tx::set_int: the flag at offset 0, the number of records at
\* offset 4, then the slots; a slot keeps the fields it was last given also
\* when it lies at or after the number of records.  A file of the index is
\* the sequence of its pages, block number b at index b + 1.
BtSmallBlock == 56     \* Tx::block_size of one database of the index
BtBigBlock == 72       \* and of another
BtBlockSizes == {BtSmallBlock, BtBigBlock}

\* Layout::from_schema of the leaf schema (dataval, block, id) and of the
\* directory schema (block, dataval), all i32
LeafSlotSize == LAYOUT_START + 3 * I32Size
DirSlotSize == LAYOUT_START + 2 * I32Size

\* BTPage::slot_pos
SlotPos(slot, ss) == 2 * I32Size + slot * ss

\* the slots that lie inside a block
BtPhys(ss, bsize) == (bsize - SlotPos(0, ss)) \div ss

\* the block that Tx::append gives (Page::new)
BtZeroPage(ss, bsize) ==
    [flag |-> 0, num |-> 0,
     slots |-> [i \in 1..BtPhys(ss, bsize) |-> [dataval |-> 0, block |-> 0, id |-> 0]]]

\* BTPage::get_data_val
GetDataVal(pg, slot) == pg.slots[slot + 1].dataval

\* the loop of BTPage::find_slot_before
RECURSIVE FindFrom(_, _, _)
FindFrom(pg, key, slot) ==
    IF slot < pg.num /\ GetDataVal(pg, slot) < key
    THEN FindFrom(pg, key, slot + 1)
    ELSE slot

\* BTPage::find_slot_before
FindSlotBefore(pg, key) == FindFrom(pg, key, 0) - 1

\* BTPage::is_full
BtIsFull(pg, ss, bsize) == SlotPos(pg.num + 1, ss) >= bsize

\* BTPage::copy_record
CopyRecord(pg, from, to) == [pg EXCEPT !.slots[to + 1] = pg.slots[from + 1]]

\* the loop of BTPage::insert
RECURSIVE ShiftRight(_, _, _)
ShiftRight(pg, i, slot) ==
    IF i > slot THEN ShiftRight(CopyRecord(pg, i - 1, i), i - 1, slot) ELSE pg

\* BTPage::insert
PgInsert(pg, slot) == [ShiftRight(pg, pg.num, slot) EXCEPT !.num = pg.num + 1]

\* the loop of BTPage::delete
RECURSIVE ShiftLeft(_, _)
ShiftLeft(pg, i) ==
    IF i < pg.num THEN ShiftLeft(CopyRecord(pg, i, i - 1), i + 1) ELSE pg

\* BTPage::delete on a page that has records
PgDelete(pg, slot) == [ShiftLeft(pg, slot + 1) EXCEPT !.num = pg.num - 1]

\* BTPage::insert_leaf
InsertLeaf(pg, slot, val, rid) ==
    [PgInsert(pg, slot) EXCEPT
        !.slots[slot + 1] = [dataval |-> val, block |-> rid.block, id |-> rid.id]]

\* BTPage::insert_dir; a directory slot has no field id
InsertDir(pg, slot, val, blknum) ==
    [PgInsert(pg, slot) EXCEPT
        !.slots[slot + 1] = [dataval |-> val, block |-> blknum, id |-> 0]]

\* BTPage::transfer_records: <<this page, dest>> when the loop ends
RECURSIVE TransferRecords(_, _, _, _)
TransferRecords(pg, dest, slot, dest_slot) ==
    IF slot < pg.num
    THEN TransferRecords(
            PgDelete(pg, slot),
            [PgInsert(dest, dest_slot) EXCEPT !.slots[dest_slot + 1] = pg.slots[slot + 1]],
            slot, dest_slot + 1)
    ELSE <<pg, dest>>

\* BTPage::split on block b of file F: append_new (Tx::append, format),
\* transfer_records, set_flag; blk is the number of the new block
BtSplit(F, b, split_pos, flag, ss, bsize) ==
    LET t == TransferRecords(F[b + 1], [BtZeroPage(ss, bsize) EXCEPT !.flag = flag],
                             split_pos, 0)
    IN [F |-> Append([F EXCEPT ![b + 1] = t[1]], [t[2] EXCEPT !.flag = flag]),
        blk |-> Len(F)]

\* ------------------------------------------------ index/btree/btree_leaf.rs
\* BTreeLeaf::new: the leaf's block, current_slot and search_key
LeafNew(L, b, key) ==
    [blk |-> b, slot |-> FindSlotBefore(L[b + 1], key), key |-> key]

\* BTreeLeaf::try_overflow
TryOverflow(L, c) ==
    LET first_key == GetDataVal(L[c.blk + 1], 0)
        flag == L[c.blk + 1].flag
    IN IF c.key # first_key \/ flag < 0
       THEN [cur |-> c, ok |-> FALSE]
       ELSE [cur |-> [c EXCEPT !.blk = flag, !.slot = 0], ok |-> TRUE]

\* BTreeLeaf::next
LeafNext(L, c) ==
    LET c1 == [c EXCEPT !.slot = @ + 1] IN
    IF c1.slot >= L[c1.blk + 1].num THEN TryOverflow(L, c1)
    ELSE IF GetDataVal(L[c1.blk + 1], c1.slot) = c1.key THEN [cur |-> c1, ok |-> TRUE]
    ELSE TryOverflow(L, c1)

\* BTreeLeaf::get_data_rid
GetDataRid(L, c) ==
    [block |-> L[c.blk + 1].slots[c.slot + 1].block,
     id |-> L[c.blk + 1].slots[c.slot + 1].id]

\* BTreeLeaf::delete; BTPage::delete on a page without records subtracts
\* from 0 (panic)
RECURSIVE LeafDelete(_, _, _)
LeafDelete(L, c, rid) ==
    LET n == LeafNext(L, c) IN
    IF ~n.ok THEN [F |-> L, panic |-> FALSE]
    ELSE IF GetDataRid(L, n.cur) = rid
    THEN IF L[n.cur.blk + 1].num = 0
         THEN [F |-> L, panic |-> TRUE]
         ELSE [F |-> [L EXCEPT ![n.cur.blk + 1] = PgDelete(@, n.cur.slot)],
               panic |-> FALSE]
    ELSE LeafDelete(L, n.cur, rid)

\* Option<DirectoryEntry>::None
NoEntry == [dataval |-> 0, blk |-> -1]

RECURSIVE SkipRight(_, _, _)
SkipRight(pg, split_pos, split_key) ==
    IF GetDataVal(pg, split_pos) = split_key
    THEN SkipRight(pg, split_pos + 1, split_key)
    ELSE split_pos

RECURSIVE SkipLeft(_, _, _)
SkipLeft(pg, split_pos, split_key) ==
    IF GetDataVal(pg, split_pos - 1) = split_key
    THEN SkipLeft(pg, split_pos - 1, split_key)
    ELSE split_pos

\* BTreeLeaf::insert: the leaf file and the directory entry it returns
LeafInsert(L, c, rid, bsize) ==
    LET pg == L[c.blk + 1]
        first_val == GetDataVal(pg, 0)
    IN
    IF pg.flag >= 0 /\ first_val > c.key
    THEN \* inserting to the "left"
         LET s == BtSplit(L, c.blk, 0, pg.flag, LeafSlotSize, bsize) IN
         [F |-> [s.F EXCEPT ![c.blk + 1] =
                    InsertLeaf([@ EXCEPT !.flag = -1], 0, c.key, rid)],
          entry |-> [dataval |-> first_val, blk |-> s.blk]]
    ELSE
         LET pg1 == InsertLeaf(pg, c.slot + 1, c.key, rid)
             L1 == [L EXCEPT ![c.blk + 1] = pg1]
             first_key == GetDataVal(pg1, 0)
             last_key == GetDataVal(pg1, pg1.num - 1)
             mid == pg1.num \div 2
             mid_key == GetDataVal(pg1, mid)
             split_pos == IF mid_key = first_key
                          THEN SkipRight(pg1, mid, mid_key)
                          ELSE SkipLeft(pg1, mid, mid_key)
             split_key == GetDataVal(pg1, split_pos)
         IN
         IF ~BtIsFull(pg1, LeafSlotSize, bsize) THEN [F |-> L1, entry |-> NoEntry]
         ELSE IF first_key = last_key
         THEN \* an overflow block holds all but the first record
              LET s == BtSplit(L1, c.blk, 1, pg1.flag, LeafSlotSize, bsize) IN
              [F |-> [s.F EXCEPT ![c.blk + 1].flag = s.blk], entry |-> NoEntry]
         ELSE LET s == BtSplit(L1, c.blk, split_pos, -1, LeafSlotSize, bsize) IN
              [F |-> s.F, entry |-> [dataval |-> split_key, blk |-> s.blk]]

\* ------------------------------------------- index/btree/btree_directory.rs
\* BTreeDirectory::find_child_block: the number of the child block; -1 when
\* the slot it asks get_child_num for is -1, or the slot it compares lies
\* outside the block (the page access panics)
FindChildBlock(pg, key) ==
    LET slot == FindSlotBefore(pg, key) IN
    IF slot + 2 > Len(pg.slots) THEN -1
    ELSE IF GetDataVal(pg, slot + 1) = key THEN pg.slots[slot + 2].block
    ELSE IF slot = -1 THEN -1
    ELSE pg.slots[slot + 1].block

\* block b is a block of file F
InFile(F, b) == b >= 0 /\ b < Len(F)

\* BTreeDirectory::search, from the directory block b on: the number of the
\* leaf block; -1 when the search panics or comes to a block number that is
\* not a block of the directory file (FileManager::get_block reads nothing
\* there, the page keeps what its buffer held before)
RECURSIVE DirSearch(_, _, _)
DirSearch(D, b, key) ==
    IF ~InFile(D, b) THEN -1
    ELSE IF D[b + 1].flag > 0
    THEN DirSearch(D, FindChildBlock(D[b + 1], key), key)
    ELSE FindChildBlock(D[b + 1], key)

\* BTreeDirectory::insert_entry on block b
InsertEntry(D, b, e, bsize) ==
    LET pg == InsertDir(D[b + 1], 1 + FindSlotBefore(D[b + 1], e.dataval),
                        e.dataval, e.blk)
        D1 == [D EXCEPT ![b + 1] = pg]
        split_pos == pg.num \div 2
        s == BtSplit(D1, b, split_pos, pg.flag, DirSlotSize, bsize)
    IN IF ~BtIsFull(pg, DirSlotSize, bsize)
       THEN [F |-> D1, entry |-> NoEntry, astray |-> FALSE]
       ELSE [F |-> s.F, entry |-> [dataval |-> GetDataVal(pg, split_pos), blk |-> s.blk],
             astray |-> FALSE]

\* BTreeDirectory::insert on block b; astray when the child block it finds
\* is not a block of the directory file
RECURSIVE DirInsert(_, _, _, _)
DirInsert(D, b, e, bsize) ==
    IF ~InFile(D, b) THEN [F |-> D, entry |-> NoEntry, astray |-> TRUE]
    ELSE IF D[b + 1].flag = 0 THEN InsertEntry(D, b, e, bsize)
    ELSE LET r == DirInsert(D, FindChildBlock(D[b + 1], e.dataval), e, bsize) IN
         IF r.entry # NoEntry THEN InsertEntry(r.F, b, r.entry, bsize) ELSE r

\* BTreeDirectory::make_new_root on the root block 0
MakeNewRoot(D, e, bsize) ==
    LET first_val == GetDataVal(D[1], 0)
        level == D[1].flag
        s == BtSplit(D, 0, 0, level, DirSlotSize, bsize)
        r1 == InsertEntry(s.F, 0, [dataval |-> first_val, blk |-> s.blk], bsize)
        r2 == InsertEntry(r1.F, 0, e, bsize)
    IN [r2.F EXCEPT ![1].flag = level + 1]

\* ----------------------------------------------- index/btree/btree_index.rs
\* A client of one BTreeIndex over i32 keys in one transaction (the pattern
\* of test_btree_index_no_dupes and test_btree_index_duplicates): it inserts
\* and deletes entries and looks keys up with before_first and next.
NBtKeys == 3           \* keys
NBtRids == 2           \* RIDs
MaxBtInserts == 4      \* calls of insert
MaxBtDeletes == 2      \* calls of delete
MaxBtScans == 1        \* calls of before_first by the client
BtKeys == 1..NBtKeys
BtRids == {[block |-> 0, id |-> i] : i \in 1..NBtRids}
I32Min == -2147483647 - 1

\* BTreeIndex.leaf = None
NoLeaf == [blk |-> -1, slot |-> 0, key |-> 0]

\* no lookup under way; of a lookup: next has returned false (done), the
\* times it returned true (trues), get_rid gave an RID that is not the RID
\* of a live entry of the key (stale)
NoScan == [on |-> FALSE, done |-> FALSE, trues |-> 0, stale |-> FALSE]

\* no index yet; st of an index is "open", or "astray" after a search that
\* left the files of the index, or "panic" after a call that panicked
NoBtTest ==
    [st |-> "none", bsize |-> 0, leaf |-> <<>>, dir |-> <<>>,
     cur |-> NoLeaf,
     live |-> [e \in BtKeys \X BtRids |-> 0],    \* entries inserted and not deleted
     scan |-> NoScan,
     pins |-> [leaf |-> <<>>, dir |-> <<>>],     \* pins the pages dropped so far left behind
     inserts |-> 0, deletes |-> 0, scans |-> 0]

\* the pins of the transaction on the blocks of file F that remain when the
\* BTPages of a call are dropped: BTPage::new pins the block and Drop unpins
\* it, BTPage::append_new pins the block it appends and nothing unpins it
PinsAfter(pins, F) == pins \o [i \in 1..(Len(F) - Len(pins)) |-> 1]

\* BTreeIndex::new in a database of block size bsize that has no file of the
\* index: the leaf block formatted with flag -1 and the root block with the
\* entry (i32::MIN, 0)
BtNew(bsize) ==
    /\ bt.st = "none"
    /\ bt' = [bt EXCEPT
                !.st = "open", !.bsize = bsize,
                !.leaf = <<[BtZeroPage(LeafSlotSize, bsize) EXCEPT !.flag = -1]>>,
                !.dir = <<InsertDir(BtZeroPage(DirSlotSize, bsize), 0, I32Min, 0)>>,
                !.pins = [leaf |-> <<0>>, dir |-> <<0>>]]
    /\ UNCHANGED btFrame

\* the leaf block that BTreeIndex::before_first finds, -1 when the search
\* does not come to a block of the leaf file
FindLeaf(key) ==
    LET b == DirSearch(bt.dir, 0, key) IN
    IF InFile(bt.leaf, b) THEN b ELSE -1

\* BTreeIndex::before_first
BtBeforeFirst(key) ==
    /\ bt.st = "open"
    /\ bt.scans < MaxBtScans
    /\ bt' = IF FindLeaf(key) = -1
             THEN [bt EXCEPT !.st = "astray", !.cur = NoLeaf, !.scan = NoScan]
             ELSE [bt EXCEPT !.cur = LeafNew(bt.leaf, FindLeaf(key), key),
                             !.scans = @ + 1,
                             !.scan = [NoScan EXCEPT !.on = TRUE]]
    /\ UNCHANGED btFrame

\* BTreeIndex::next, and BTreeIndex::get_rid when it returned true
BtNext ==
    /\ bt.st = "open"
    /\ bt.cur.blk # -1
    /\ ~bt.scan.done
    /\ LET n == LeafNext(bt.leaf, bt.cur) IN
       bt' = [bt EXCEPT
                !.cur = n.cur,
                !.scan = [on |-> TRUE, done |-> ~n.ok,
                          trues |-> IF n.ok THEN @.trues + 1 ELSE @.trues,
                          stale |-> @.stale \/
                              (n.ok /\ bt.live[<<bt.cur.key, GetDataRid(bt.leaf, n.cur)>>] = 0)]]
    /\ UNCHANGED btFrame

\* BTreeIndex::insert
BtInsert(key, rid) ==
    /\ bt.st = "open"
    /\ bt.inserts < MaxBtInserts
    /\ LET r == LeafInsert(bt.leaf, LeafNew(bt.leaf, FindLeaf(key), key), rid, bt.bsize)
           e2 == DirInsert(bt.dir, 0, r.entry, bt.bsize)
           dir2 == IF r.entry = NoEntry THEN bt.dir
                   ELSE IF e2.entry = NoEntry THEN e2.F
                   ELSE MakeNewRoot(e2.F, e2.entry, bt.bsize)
       IN bt' = IF FindLeaf(key) = -1
                THEN [bt EXCEPT !.st = "astray", !.cur = NoLeaf, !.scan = NoScan]
                ELSE [bt EXCEPT
                        !.st = IF r.entry # NoEntry /\ e2.astray THEN "astray" ELSE @,
                        !.leaf = r.F,
                        !.dir = dir2,
                        !.pins = [leaf |-> PinsAfter(@.leaf, r.F),
                                  dir |-> PinsAfter(@.dir, dir2)],
                        !.cur = NoLeaf, !.scan = NoScan,
                        !.live[<<key, rid>>] = @ + 1,
                        !.inserts = @ + 1]
    /\ UNCHANGED btFrame

\* BTreeIndex::delete
BtDelete(key, rid) ==
    /\ bt.st = "open"
    /\ bt.deletes < MaxBtDeletes
    /\ LET r == LeafDelete(bt.leaf, LeafNew(bt.leaf, FindLeaf(key), key), rid) IN
       bt' = IF FindLeaf(key) = -1
             THEN [bt EXCEPT !.st = "astray", !.cur = NoLeaf, !.scan = NoScan]
             ELSE [bt EXCEPT
                     !.st = IF r.panic THEN "panic" ELSE @,
                     !.leaf = r.F,
                     !.cur = NoLeaf, !.scan = NoScan,
                     !.live[<<key, rid>>] = IF @ > 0 /\ ~r.panic THEN @ - 1 ELSE @,
                     !.deletes = @ + 1]
    /\ UNCHANGED btFrame

\* ------------------------------ table_scan.rs / static_hash_index.rs
\* A StaticHashIndex in one transaction.  Bucket i is the table file
\* index_name + i; a block of it is the sequence of its slots, each with its
\* flag and the fields block, id and dataval.  A RID is written as its
\* number r: block_num r, slot r (values which the casts to i32 and back
\* preserve).  The keys stand for any distinct i32 values: hash(key) %
\* num_buckets is 0 with one bucket and any assignment with two.
HxSlotsPerBlock == 2     \* slots for which is_valid_slot holds
NHxKeys == 2
NHxRids == 2
MaxHxInserts == 3
MaxHxDeletes == 2
MaxHxLookups == 2
MaxHxBuckets == 2
HxKeys == 1..NHxKeys
HxRids == 1..NHxRids
NoKey == 0               \* search_key: None

HxEmptySlot == [flag |-> EMPTY, block |-> 0, id |-> 0, dataval |-> 0]
HxZeroBlock == [i \in 1..HxSlotsPerBlock |-> HxEmptySlot]

\* RecordPage::search_after on the slots of a block
RECURSIVE HxSearchFrom(_, _, _)
HxSearchFrom(page, slot, flag) ==
    IF slot >= HxSlotsPerBlock THEN -1
    ELSE IF page[slot + 1].flag = flag THEN slot
    ELSE HxSearchFrom(page, slot + 1, flag)

\* TableScan::new on table file f: a file of size 0 gets its first block;
\* the scan is before the first slot of block 0
TsNew(files, f) ==
    [files |-> IF files[f] = <<>> THEN [files EXCEPT ![f] = <<HxZeroBlock>>] ELSE files,
     ts |-> [f |-> f, blk |-> 0, slot |-> -1]]

\* TableScan::next: the scan afterwards and what next returns
RECURSIVE TsNext(_, _)
TsNext(files, ts) ==
    LET slot == HxSearchFrom(files[ts.f][ts.blk + 1], ts.slot + 1, USED) IN
    IF slot # -1 THEN [ts |-> [ts EXCEPT !.slot = slot], ret |-> TRUE]
    ELSE IF ts.blk = Len(files[ts.f]) - 1
    THEN [ts |-> [ts EXCEPT !.slot = -1], ret |-> FALSE]
    ELSE TsNext(files, [ts EXCEPT !.blk = @ + 1, !.slot = -1])

\* TableScan::insert: insert_after on the current block, then on the blocks
\* behind it, then on a block appended to the file
RECURSIVE TsInsert(_, _)
TsInsert(files, ts) ==
    LET slot == HxSearchFrom(files[ts.f][ts.blk + 1], ts.slot + 1, EMPTY) IN
    IF slot # -1
    THEN [files |-> [files EXCEPT ![ts.f][ts.blk + 1][slot + 1].flag = USED],
          ts |-> [ts EXCEPT !.slot = slot]]
    ELSE IF ts.blk = Len(files[ts.f]) - 1
    THEN TsInsert([files EXCEPT ![ts.f] = Append(@, HxZeroBlock)],
                  [ts EXCEPT !.blk = Len(files[ts.f]), !.slot = -1])
    ELSE TsInsert(files, [ts EXCEPT !.blk = @ + 1, !.slot = -1])

\* the slot the scan is on
TsSlot(files, ts) == files[ts.f][ts.blk + 1][ts.slot + 1]

\* no index has been created
NoHxTest ==
    [st |-> "none", nb |-> 1,
     hash |-> [k \in HxKeys |-> 0],   \* hash(key) % num_buckets
     files |-> <<>>,                  \* the bucket files, bucket i at i + 1
     key |-> NoKey, ts |-> [f |-> 1, blk |-> 0, slot |-> -1],
     live |-> <<>>,       \* the entries inserted and not deleted, in order
     got |-> <<>>,        \* the RIDs of the lookup in progress
     look |-> "none",     \* "scan" during a lookup, "done" when next returned false
     inserts |-> 0, deletes |-> 0, lookups |-> 0]

\* StaticHashIndex::before_first: the index afterwards
HxBeforeFirst(H, key) ==
    LET n == TsNew(H.files, H.hash[key] + 1) IN
    [H EXCEPT !.key = key, !.files = n.files, !.ts = n.ts]

\* StaticHashIndex::next: the loop returns in its first iteration, with
\* the comparison of that record's dataval
HxNext(H) ==
    IF H.key = NoKey THEN [H |-> H, ret |-> FALSE]
    ELSE LET n == TsNext(H.files, H.ts) IN
         [H |-> [H EXCEPT !.ts = n.ts],
          ret |-> n.ret /\ TsSlot(H.files, n.ts).dataval = H.key]

\* StaticHashIndex::get_rid
HxGetRid(H) == TsSlot(H.files, H.ts).block

\* StaticHashIndex::insert
HxInsert(H, key, rid) ==
    LET B == HxBeforeFirst(H, key)
        n == TsInsert(B.files, B.ts)
    IN [B EXCEPT !.ts = n.ts,
                 !.files = [n.files EXCEPT ![n.ts.f][n.ts.blk + 1][n.ts.slot + 1] =
                               [flag |-> USED, block |-> rid, id |-> rid, dataval |-> key]]]

\* StaticHashIndex::delete, the loop from the index H on
RECURSIVE HxDeleteLoop(_, _)
HxDeleteLoop(H, rid) ==
    LET n == HxNext(H) IN
    IF ~n.ret THEN n.H
    ELSE IF HxGetRid(n.H) = rid
    THEN [n.H EXCEPT !.files[n.H.ts.f][n.H.ts.blk + 1][n.H.ts.slot + 1].flag = EMPTY]
    ELSE HxDeleteLoop(n.H, rid)

\* StaticHashIndex::delete
HxDelete(H, key, rid) == HxDeleteLoop(HxBeforeFirst(H, key), rid)

\* the entries without the first (key, rid)
RECURSIVE WithoutFirst(_, _)
WithoutFirst(entries, e) ==
    IF entries = <<>> THEN <<>>
    ELSE IF Head(entries) = e THEN Tail(entries)
    ELSE <<Head(entries)>> \o WithoutFirst(Tail(entries), e)

\* StaticHashIndex::new(nb, ..) with the buckets that the keys hash to
HxNewIndex(nb, hash) ==
    /\ hx.st = "none"
    /\ hx' = [hx EXCEPT !.st = "open", !.nb = nb, !.hash = hash,
                        !.files = [i \in 1..nb |-> <<>>]]
    /\ UNCHANGED hxFrame

\* idx.insert(&key, rid)
HxDoInsert(key, rid) ==
    /\ hx.st = "open"
    /\ hx.inserts < MaxHxInserts
    /\ hx' = [HxInsert(hx, key, rid) EXCEPT
                 !.live = Append(@, <<key, rid>>), !.look = "none", !.got = <<>>,
                 !.inserts = @ + 1]
    /\ UNCHANGED hxFrame

\* idx.delete(&key, rid) of an entry that was inserted
HxDoDelete(key, rid) ==
    /\ hx.st = "open"
    /\ hx.deletes < MaxHxDeletes
    /\ \E i \in 1..Len(hx.live) : hx.live[i] = <<key, rid>>
    /\ hx' = [HxDelete(hx, key, rid) EXCEPT
                 !.live = WithoutFirst(@, <<key, rid>>), !.look = "none", !.got = <<>>,
                 !.deletes = @ + 1]
    /\ UNCHANGED hxFrame

\* idx.before_first(&key), the start of a lookup
HxDoBeforeFirst(key) ==
    /\ hx.st = "open"
    /\ hx.lookups < MaxHxLookups
    /\ hx' = [HxBeforeFirst(hx, key) EXCEPT !.look = "scan", !.got = <<>>,
                                            !.lookups = @ + 1]
    /\ UNCHANGED hxFrame

\* idx.next() of the lookup, and idx.get_rid() when it returned true
HxDoNext ==
    /\ hx.look = "scan"
    /\ LET n == HxNext(hx) IN
       hx' = IF n.ret THEN [n.H EXCEPT !.got = Append(@, HxGetRid(n.H))]
             ELSE [n.H EXCEPT !.look = "done"]
    /\ UNCHANGED hxFrame

\* --------------------------------------------- page.rs, called directly
\* A client that writes integers of every supported type and strings to one
\* page (the pattern of test_write_primitive and test_write_string_to_page):
\* each write goes to the offset behind the previous one, or the client
\* moves to an offset of its choice first.  The page has PgTestLen bytes.
PgTestLen == 16    \* PAGE_SIZE of the page the client writes
MaxPgWrites == 3   \* write calls of the client
IntTypes == {"u16", "i16", "u32", "i32", "u64", "i64"}
PgSeeks == {0, 3}  \* offsets the client moves to
PgStrs == {<<>>} \cup StrVals

\* size_of::<T>()
IntSize(ty) ==
    CASE ty \in {"u16", "i16"} -> 2
      [] ty \in {"u32", "i32"} -> 4
      [] ty \in {"u64", "i64"} -> 8

Signed(ty) == ty \in {"i16", "i32", "i64"}

\* values of type ty: its least and greatest value where the integers of the
\* model hold them, the greatest signed 32-bit value otherwise
IntValsOf(ty) ==
    CASE ty = "u16" -> {0, 255, 256, 65535}
      [] ty = "i16" -> {-32768, -1, 0, 32767}
      [] ty = "u32" -> {0, 65536, 2147483647}
      [] ty = "i32" -> {I32Min, -1, 0, 2147483647}
      [] ty = "u64" -> {0, 65536, 2147483647}
      [] ty = "i64" -> {I32Min, -1, 0, 2147483647}

\* the n little-endian two's complement bytes of v (LittleEndian::write_*)
RECURSIVE LEBytesOf(_, _)
LEBytesOf(v, n) ==
    IF n = 0 THEN <<>> ELSE <<v % 256>> \o LEBytesOf(v \div 256, n - 1)

\* the bytes off + 1 .. off + n as a little-endian number below acc
RECURSIVE LEFold(_, _, _, _)
LEFold(pg, off, n, acc) ==
    IF n = 0 THEN acc ELSE LEFold(pg, off, n - 1, 256 * acc + pg[off + n])

\* (mutant) read takes every type for unsigned
ReadIntUnsigned(pg, off, ty) == LEFold(pg, off, IntSize(ty), 0)

\* impl ReadTypeFromPage for the integer types (LittleEndian::read_*)
ReadInt(pg, off, ty) ==
    LET top == pg[off + IntSize(ty)] IN
    LEFold(pg, off, IntSize(ty) - 1,
           IF Signed(ty) /\ top >= 128 THEN top - 256 ELSE top)

\* impl WriteTypeToPage for the integer types: the page and the value returned
WriteInt(pg, off, v, ty) ==
    [data |-> PutBytes(pg, off, LEBytesOf(v, IntSize(ty))), n |-> IntSize(ty)]

\* the value returned by write for a &str
StrWritten(str) == LenSize + Len(str)

\* the page of a client that has written nothing: Page::new
NoPgTest ==
    [data |-> [i \in 1..PgTestLen |-> 0],
     items |-> <<>>,      \* the values written and not overwritten since:
                          \* type, value, offset, value returned by write
     off |-> 0,           \* the offset of the next write
     writes |-> 0, st |-> "ok"]

\* the items no byte of which lies in off .. off + n - 1
Kept(items, off, n) ==
    SelectSeq(items, LAMBDA it : it.off + it.n <= off \/ off + n <= it.off)

\* what a write of n bytes that gives page data leaves of the client's state
Written(data, ty, v, n) ==
    [pgt EXCEPT !.data = data,
                !.items = Append(Kept(@, pgt.off, n),
                                 [ty |-> ty, val |-> v, off |-> pgt.off, n |-> n]),
                !.off = @ + n,
                !.writes = @ + 1]

\* offset += page.write(v, offset) for an integer v of type ty; the slice
\* data[offset..end] panics when end is behind the page
PgWriteInt(ty, v) ==
    /\ pgt.st = "ok"
    /\ pgt.writes < MaxPgWrites
    /\ pgt' = IF pgt.off + IntSize(ty) > PgTestLen
              THEN [pgt EXCEPT !.st = "panic"]
              ELSE LET w == WriteInt(pgt.data, pgt.off, v, ty) IN
                   Written(w.data, ty, v, w.n)
    /\ UNCHANGED pgtFrame

\* offset += page.write(str, offset); the assert fails when the string
\* does not fit
PgWriteStr(str) ==
    /\ pgt.st = "ok"
    /\ pgt.writes < MaxPgWrites
    /\ pgt' = IF pgt.off + LenSize + Len(str) > PgTestLen
              THEN [pgt EXCEPT !.st = "panic"]
              ELSE Written(WriteStr(pgt.data, pgt.off, str), "str", str, StrWritten(str))
    /\ UNCHANGED pgtFrame

\* the client goes on at offset off
PgSeek(off) ==
    /\ pgt.st = "ok"
    /\ pgt.writes < MaxPgWrites
    /\ pgt.off # off
    /\ pgt' = [pgt EXCEPT !.off = off]
    /\ UNCHANGED pgtFrame

\* ----------------------------------------------------- specifications
\* the database after construction on empty directories whose data file has
\* NBlocks zero blocks; the workload may begin txs transactions and the
\* process may crash `crashes` times
InitDb(txs, crashes) ==
    /\ tx = [t \in Threads |-> NoTx]
    /\ nextTx = 0
    /\ bufs = [f \in Frames |-> NewBuffer]
    /\ bm = NewBM
    /\ lg = LogNew(<<>>)
    /\ disk = [b \in FileBlocks |-> ZeroPage]
    /\ sys = [mode |-> "run", txs |-> txs, crashes |-> crashes]
    /\ ghost = [dlsn |-> [b \in FileBlocks |-> 0], cInt |-> [b \in Blocks |-> 0],
                cAt |-> [b \in Blocks |-> 0], maybe |-> [b \in Blocks |-> {}]]
    /\ logt = NoLogTest
    /\ pool = NoPoolTest
    /\ fm = NoFmTest
    /\ rp = NoRpTest
    /\ bt = NoBtTest
    /\ pgt = NoPgTest
    /\ hx = NoHxTest

\* threads `live` are clients without a transaction, the others do not run
InitThreads(live) ==
    /\ count = [b \in Blocks |-> NoLock]
    /\ waitq = [b \in Blocks |-> {}]
    /\ pc = [t \in Threads |-> IF t \in live THEN "notx" ELSE "off"]
    /\ opn = [t \in Threads |-> "none"]
    /\ blk = [t \in Threads |-> 1]
    /\ cmLocks = [t \in Threads |-> NoLocks]
    /\ relLeft = [t \in Threads |-> {}]
    /\ rounds = [t \in Threads |-> 0]
    /\ batch = [t \in Threads |-> 0]

\* the steps of a call in progress
TxStep(t) ==
    \/ SlockMap(t)
    \/ SlockChk(t)
    \/ XlockMap(t)
    \/ XlockChk(t)
    \/ SetBody(t)
    \/ CommitLog(t)
    \/ ReleaseOne(t)
    \/ ReleaseClear(t)
    \/ UnpinAll(t)
    \/ Scan(t)
    \/ UndoUnpin(t)
    \/ ScanFlush(t)
    \/ EndLog(t)

\* concurrent transactions reading and writing i32 values, in the pattern of
\* test_parallel_transactions: a transaction pins its blocks, then reads and
\* writes them, then commits or rolls back; it writes one value of its own
NTx == 2           \* client threads of the concurrent workload
MaxTx == 2         \* transactions the concurrent workload begins

InitTx == InitThreads(1..NTx) /\ InitDb(MaxTx, 0)

\* tx.pin(&blk) at the start of the transaction, once for a block
PinFirst(t, b) ==
    /\ tx[t].ops = MaxOps
    /\ tx[t].gets = MaxGets
    /\ tx[t].bufOf[b] = 0
    /\ TxPin(t, b)

\* tx.set_int(&blk, 0, v, true) with the value of this transaction, its
\* one write
SetOwn(t, b) == tx[t].ops = MaxOps /\ TxSetInt(t, b, tx[t].num + 1)

NextTx ==
    \/ \E t \in Threads : TxNew(t)
    \/ \E t \in Threads, b \in Blocks : PinFirst(t, b)
    \/ \E t \in Threads, b \in Blocks : TxGetInt(t, b)
    \/ \E t \in Threads, b \in Blocks : SetOwn(t, b)
    \/ \E t \in Threads : TxCommit(t)
    \/ \E t \in Threads : TxRollback(t)
    \/ \E t \in Threads : GetBody(t)
    \/ \E t \in Threads : TxStep(t)
    \/ \E t \in Threads : SpuriousWake(t)

SpecTx == InitTx /\ [][NextTx]_vars

\* one client: transactions writing i32 values and strings, then commit or
\* rollback
MaxSerialTx == 2   \* transactions the serial workload begins

InitSerial == InitThreads({1}) /\ InitDb(MaxSerialTx, 0)

NextSerial ==
    \/ \E t \in Threads : TxNew(t)
    \/ \E t \in Threads : TxPin(t, TestBlk)
    \/ \E t \in Threads : TxUnpin(t, TestBlk)
    \/ \E t \in Threads, v \in IntVals : TxSetInt(t, TestBlk, v)
    \/ \E t \in Threads, str \in StrVals : TxSetString(t, TestBlk, str)
    \/ \E t \in Threads : TxCommit(t)
    \/ \E t \in Threads : TxRollback(t)
    \/ \E t \in Threads : TxStep(t)

SpecSerial == InitSerial /\ [][NextSerial]_vars

\* one client that also goes on with a Tx object after its commit
MaxReuseTx == 2    \* Tx::new calls and continuations after a commit

InitReuse == InitThreads({1}) /\ InitDb(MaxReuseTx, 0)

NextReuse ==
    \/ NextSerial
    \/ \E t \in Threads : TxAgain(t)

SpecReuse == InitReuse /\ [][NextReuse]_vars

\* one client writing i32 values; the process may crash at any point and
\* then restarts with recover()
MaxCrashTx == 3    \* transactions begun over all lifetimes of the process
MaxCrash == 2      \* crashes

InitCrash == InitThreads({1}) /\ InitDb(MaxCrashTx, MaxCrash)

NextCrash ==
    \/ \E t \in Threads : TxNew(t)
    \/ \E t \in Threads : TxPin(t, TestBlk)
    \/ \E t \in Threads, v \in IntVals : TxSetInt(t, TestBlk, v)
    \/ \E t \in Threads : TxCommit(t)
    \/ \E t \in Threads : TxRollback(t)
    \/ \E t \in Threads : TxStep(t)
    \/ Crash
    \/ \E t \in Threads : RecoverStart(t)

SpecCrash == InitCrash /\ [][NextCrash]_vars

\* the same client on a log that another component appends its own bytes to
MaxCorruptTx == 2  \* transactions begun over all lifetimes of the process
MaxCorruptCrash == 1   \* crashes

InitCorrupt == InitThreads({1}) /\ InitDb(MaxCorruptTx, MaxCorruptCrash)

NextCorrupt ==
    \/ NextCrash
    \/ \E t \in Threads : AppendBytes(t)

SpecCorrupt == InitCorrupt /\ [][NextCorrupt]_vars

\* clients of the log manager alone
InitLog == InitThreads({}) /\ InitDb(0, 0)

NextLog ==
    \/ \E t \in LogThreads, len \in RecLens : LogTAppend(t, len)
    \/ \E lsn \in 1..MaxAppends : LogTFlush(lsn)
    \/ LogTSnapshot
    \/ \E i \in 1..MaxSnaps : LogTNext(i)
    \/ LogTRestart

SpecLog == InitLog /\ [][NextLog]_vars

\* the same clients, which also append records longer than a page holds
NextLogLong ==
    \/ NextLog
    \/ \E t \in LogThreads : LogTAppend(t, LongLen)

SpecLogLong == InitLog /\ [][NextLogLong]_vars

\* a client of the buffer manager alone
InitPool == InitThreads({}) /\ InitDb(0, 0)

NextPool ==
    \/ \E b \in FileBlocks : PoolPin(b)
    \/ \E f \in Frames : PoolUnpin(f)
    \/ \E f \in Frames, v \in IntVals : PoolWrite(f, v)

SpecPool == InitPool /\ [][NextPool]_vars

\* a client of the file manager alone
InitFm == InitThreads({}) /\ InitDb(0, 0)

NextFm ==
    \/ \E id \in FmFiles, page \in FmVals : FmAppend(id, page)
    \/ \E id \in FmFiles, num \in FmNums, page \in FmVals : FmWrite(id, num, page)
    \/ \E id \in FmFiles, num \in FmNums : FmGet(id, num)
    \/ \E id \in FmFiles, num \in FmNums, page \in FmVals : FmGetInto(id, num, page)
    \/ \E id \in FmFiles : FmLen(id)
    \/ FmRestart

SpecFm == InitFm /\ [][NextFm]_vars

InitRp == InitThreads({}) /\ InitDb(0, 0)

NextRp ==
    \/ \E slot \in RpAfter : RpInsertAfter(slot)
    \/ \E slot \in RpSlots : RpDelete(slot)
    \/ \E slot \in RpSlots, val \in IntVals : RpSetInt(slot, val)
    \/ RpFormat

SpecRp == InitRp /\ [][NextRp]_vars

InitBt == InitThreads({}) /\ InitDb(0, 0)

NextBt ==
    \/ \E bsize \in BtBlockSizes : BtNew(bsize)
    \/ \E key \in BtKeys, rid \in BtRids : BtInsert(key, rid)
    \/ \E key \in BtKeys, rid \in BtRids : BtDelete(key, rid)
    \/ \E key \in BtKeys : BtBeforeFirst(key)
    \/ BtNext

SpecBt == InitBt /\ [][NextBt]_vars

\* the client of one page
InitPage == InitThreads({}) /\ InitDb(0, 0)

NextPage ==
    \/ \E ty \in IntTypes : \E v \in IntValsOf(ty) : PgWriteInt(ty, v)
    \/ \E str \in PgStrs : PgWriteStr(str)
    \/ \E off \in PgSeeks : PgSeek(off)

SpecPage == InitPage /\ [][NextPage]_vars

\* the client of a static hash index
InitHx == InitThreads({}) /\ InitDb(0, 0)

NextHx ==
    \/ \E nb \in 1..MaxHxBuckets : \E hash \in [HxKeys -> 0..(nb - 1)] : HxNewIndex(nb, hash)
    \/ \E key \in HxKeys, rid \in HxRids : HxDoInsert(key, rid)
    \/ \E key \in HxKeys, rid \in HxRids : HxDoDelete(key, rid)
    \/ \E key \in HxKeys : HxDoBeforeFirst(key)
    \/ HxDoNext

SpecHx == InitHx /\ [][NextHx]_vars

\* ----------------------------------------------------- specification
\* transactions calling slock / xlock / release on one block in any order
InitLock ==
    /\ count = [b \in Blocks |-> NoLock]
    /\ waitq = [b \in Blocks |-> {}]
    /\ pc = [t \in Threads |-> "idle"]
    /\ opn = [t \in Threads |-> "none"]
    /\ blk = [t \in Threads |-> 1]
    /\ cmLocks = [t \in Threads |-> NoLocks]
    /\ relLeft = [t \in Threads |-> {}]
    /\ rounds = [t \in Threads |-> 0]
    /\ batch = [t \in Threads |-> 0]
    /\ InitDb(0, 0)

LockStep(t) ==
    \/ SlockMap(t)
    \/ SlockChk(t)
    \/ XlockMap(t)
    \/ XlockChk(t)
    \/ ReleaseOne(t)
    \/ ReleaseClear(t)

NextLock ==
    \/ \E t \in Threads : CallSlock(t, TestBlk)
    \/ \E t \in Threads : CallXlock(t, TestBlk)
    \/ \E t \in Threads : CallRelease(t)
    \/ \E t \in Threads : LockStep(t)
    \/ \E t \in Threads : SpuriousWake(t)

SpecLock == InitLock /\ [][NextLock]_vars

\* the same, with every thread that can take a step of a call in progress
\* eventually taking it (the OS schedules every runnable thread)
FairSpecLock == SpecLock /\ \A t \in Threads : WF_vars(LockStep(t))

\* ------------------------------------- lock_table.rs, test_threaded_locks
\* thread 1 repeats slock, xlock, unlock; every other thread repeats
\* SBatch slocks followed by SBatch unlocks
XThread == 1

\* top of the for loop of either kind of thread
TestBegin(t) ==
    /\ pc[t] = "t_begin"
    /\ pc' = [pc EXCEPT ![t] = IF rounds[t] = 0 THEN "done" ELSE "s_map"]
    /\ UNCHANGED <<lockVars, opn, blk, cmLocks, relLeft, rounds, batch>>
    /\ UNCHANGED <<dbVars, unitVars>>

\* lock_table.unlock(..) in the loop body
TestUnlock(t) ==
    /\ pc[t] = "t_unlock"
    /\ LET last == opn[t] = "t_x" \/ batch[t] = 1 IN
       /\ Unlock(t, TestBlk, IF last THEN "t_begin" ELSE "t_unlock")
       /\ rounds' = [rounds EXCEPT ![t] = IF last THEN @ - 1 ELSE @]
       /\ batch' = [batch EXCEPT ![t] =
                       IF opn[t] = "t_x" THEN @ ELSE IF @ = 1 THEN SBatch ELSE @ - 1]
    /\ UNCHANGED <<opn, blk, cmLocks, relLeft>>
    /\ UNCHANGED <<dbVars, unitVars>>

InitLockTest ==
    /\ count = [b \in Blocks |-> NoLock]
    /\ waitq = [b \in Blocks |-> {}]
    /\ pc = [t \in Threads |-> "t_begin"]
    /\ opn = [t \in Threads |-> IF t = XThread THEN "t_x" ELSE "t_s"]
    /\ blk = [t \in Threads |-> TestBlk]
    /\ cmLocks = [t \in Threads |-> NoLocks]
    /\ relLeft = [t \in Threads |-> {}]
    /\ rounds = [t \in Threads |-> IF t = XThread THEN XRounds ELSE SRounds]
    /\ batch = [t \in Threads |-> IF t = XThread THEN 0 ELSE SBatch]
    /\ InitDb(0, 0)

TestStep(t) ==
    \/ TestBegin(t)
    \/ SlockMap(t)
    \/ SlockChk(t)
    \/ XlockMap(t)
    \/ XlockChk(t)
    \/ TestUnlock(t)

NextLockTest ==
    \/ \E t \in Threads : TestStep(t)
    \/ \E t \in Threads : SpuriousWake(t)

\* fair scheduling: a thread that can run is eventually run; no wake-up is
\* assumed that no notify_one sends
SpecLockTest ==
    InitLockTest /\ [][NextLockTest]_vars /\ \A t \in Threads : WF_vars(TestStep(t))

\* =================================================================== claims
\* the lock a transaction has been granted and not yet given back
HoldsS(t, b) == cmLocks[t][b] = "S" /\ ~(pc[t] = "rel" /\ b \notin relLeft[t])
HoldsX(t, b) == cmLocks[t][b] = "X" /\ ~(pc[t] = "rel" /\ b \notin relLeft[t])

\* C1: in every interleaving of slock / xlock / release on one block, a
\* granted exclusive lock excludes every other granted lock and the counter
\* is -1; a counter n > 0 means exactly n transactions hold a shared lock.
C1_LockCounter ==
    \A b \in Blocks :
        /\ \A t \in Threads :
              HoldsX(t, b) =>
                 /\ count[b] = -1
                 /\ \A u \in Threads \ {t} : ~HoldsS(u, b) /\ ~HoldsX(u, b)
        /\ count[b] > 0 => Cardinality({t \in Threads : HoldsS(t, b)}) = count[b]

\* C1 witness: one transaction holds the exclusive lock while another is
\* blocked in slock on the same block
C1_Witness ==
    \E t, u \in Threads :
        t # u /\ HoldsX(t, TestBlk) /\ pc[u] = "s_wait" /\ blk[u] = TestBlk

\* two transactions hold a shared lock on b and both are inside xlock(b)
BothUpgrading(t, u, b) ==
    /\ t # u
    /\ HoldsS(t, b) /\ opn[t] = "cm_xlock" /\ pc[t] \in {"x_map", "x_chk", "x_wait"}
    /\ HoldsS(u, b) /\ opn[u] = "cm_xlock" /\ pc[u] \in {"x_map", "x_chk", "x_wait"}

\* C8: a lock request that cannot be granted ends after a bounded wait; in
\* particular two shared holders that both ask for the exclusive lock do
\* not both stay in xlock forever.
C8_UpgradeWaitEnds ==
    \A t, u \in Threads :
        BothUpgrading(t, u, TestBlk) ~> ~BothUpgrading(t, u, TestBlk)

\* C9: with one thread repeating slock, xlock, unlock and the others only
\* slock / unlock, under fair scheduling every request is granted and all
\* threads terminate.
C9_LockTestTerminates == <>(\A t \in Threads : pc[t] = "done")

\* C9 witness: the upgrading thread waits in xlock while another thread
\* still holds a shared lock
C9_Witness == pc[XThread] = "x_wait" /\ count[TestBlk] > 1

\* ---- transactions
\* transaction w has written block b and has appended neither its Commit
\* nor its Rollback record
Uncommitted(w, b) ==
    /\ b \in tx[w].wrote
    /\ tx[w].out = "none"
    /\ pc[w] \notin {"rel", "unpin_all", "notx"}

\* C2: no dirty reads: while transaction W has written a block and has
\* neither committed nor rolled back, no other transaction R is at the read
\* of get_int on that block; R's slock is not granted until W releases.
C2_NoDirtyRead ==
    \A r, w \in Threads :
        (r # w /\ pc[r] = "body" /\ opn[r] = "get_int") => ~Uncommitted(w, blk[r])

\* C2 witness: R is blocked in the slock of get_int on a block that W has
\* written and not yet committed
C2_Witness ==
    \E r, w \in Threads :
        /\ r # w
        /\ pc[r] = "s_wait" /\ opn[r] = "get_int"
        /\ Uncommitted(w, blk[r])
        /\ ReadI32(Visible(blk[r]), IntOff) = tx[w].lastv[blk[r]]

\* the log record with LSN l of this process lifetime is in the log file
OnDisk(l) ==
    \E n \in 1..Len(lg.file) : \E i \in 1..Len(lg.file[n]) : lg.file[n][i].lsn = l

\* C3: write-ahead logging: when the image of a block in the data file was
\* written from a buffer carrying LSN l, every log record with LSN <= l is
\* in the on-disk log file.
C3_WriteAheadLog ==
    \A b \in Blocks : \A l \in 1..ghost.dlsn[b] : OnDisk(l)

\* the Commit record of transaction number n is in the log file
CommitOnDisk(n) ==
    \E j \in 1..Len(lg.file) : \E i \in 1..Len(lg.file[j]) :
        lg.file[j][i].type = "Commit" /\ lg.file[j][i].tx = n

\* C4: commit durability: once commit() has appended its Commit record and
\* goes on to release its locks, every block it wrote is in the data file as
\* the transaction left it; when commit() has returned, the Commit record is
\* in the on-disk log file.
C4_CommitDurable ==
    \A t \in Threads :
        /\ (opn[t] = "commit" /\ pc[t] = "rel" /\ relLeft[t] = LockedBlocks(t))
              => \A b \in tx[t].wrote : disk[b] = Visible(b)
        /\ tx[t].out = "commit" => CommitOnDisk(tx[t].num)

\* C5: rollback restores the pre-transaction state: when rollback() has
\* returned, every byte of every block the transaction wrote is what it was
\* before the transaction's first write to the block.
C5_RollbackRestores ==
    \A t \in Threads :
        tx[t].out = "rollback" => \A b \in tx[t].wrote : Visible(b) = tx[t].img[b]

\* the last record of the log: of the current page, or of the log file
LastRecType ==
    IF lg.page # <<>> THEN Last(lg.page).type
    ELSE IF SnapshotRecs(LogFlushAll(lg)) = <<>> THEN "none"
    ELSE Head(SnapshotRecs(LogFlushAll(lg))).type

\* C6: crash recovery: when recover() has returned, the i32 of every block is
\* the last committed one (writes of transactions that did not commit are
\* undone, committed writes are kept; a commit in flight at the crash may
\* go either way) and a Checkpoint record is the last record of the log.
C6_Recovery ==
    \A t \in Threads :
        (tx[t].out = "recovered" /\ pc[t] = "idle") =>
            /\ \A b \in Blocks :
                  ReadI32(Visible(b), IntOff) \in {ghost.cInt[b]} \cup ghost.maybe[b]
            /\ LastRecType = "Checkpoint"

\* how strong a lock transaction t holds on block b
LockRank(t, b) == IF HoldsX(t, b) THEN 2 ELSE IF HoldsS(t, b) THEN 1 ELSE 0

\* thread t is in the release() of commit / rollback and about to unlock b
Releasing(t, b) ==
    pc[t] = "rel" /\ opn[t] \in {"commit", "rollback"} /\ b \in relLeft[t]

\* C7: two-phase locking: a lock a transaction holds is given back or
\* weakened only by the release() of its commit / rollback, and the lock
\* table counter of a block only moves towards free in such a step; a
\* transaction that has ended holds no lock.
C7_TwoPhase ==
    [][\A b \in Blocks :
          /\ \A t \in Threads :
                LockRank(t, b)' < LockRank(t, b) => Releasing(t, b)
          /\ (count[b] # NoLock /\ count'[b] # count[b]
                 /\ (count'[b] = 0 \/ (count[b] > 1 /\ count'[b] = count[b] - 1)))
                => \E t \in Threads : Releasing(t, b)
          /\ \A t \in Threads : pc'[t] = "notx" => LockRank(t, b)' = 0]_vars

\* C7 witness: a commit / rollback holding locks on two blocks has unlocked
\* one of them and still holds the other
C7_Witness ==
    \E t \in Threads :
        /\ pc[t] = "rel" /\ opn[t] \in {"commit", "rollback"}
        /\ Cardinality(LockedBlocks(t)) = 2
        /\ Cardinality(relLeft[t]) = 1

\* the pins of transaction t on frame f: the entries of its BufferList.pins
\* that a running unpin_all has not yet unpinned
PinsOn(t, f) ==
    LET from == IF pc[t] = "unpin_all" THEN tx[t].k + 1 ELSE 1 IN
    Cardinality({i \in from..Len(tx[t].pins) : tx[t].bufOf[tx[t].pins[i]] = f})

RECURSIVE SumPins(_, _)
SumPins(ts, f) ==
    IF ts = {} THEN 0
    ELSE LET t == CHOOSE u \in ts : TRUE IN PinsOn(t, f) + SumPins(ts \ {t}, f)

\* C10: when commit() or rollback() has returned, the transaction holds no
\* lock and no pin.  In every state the pin count of each pool buffer is the
\* number of pins the live transactions hold on it, so an ending transaction
\* takes away exactly its own pins; and the lock table counter of each block
\* is what the granted locks make it, so each lock is unlocked exactly once
\* (no unlock panics).
C10_EndedHoldsNothing ==
    /\ \A t \in Threads :
          (pc[t] = "notx" /\ tx[t].out \in {"commit", "rollback"}) =>
              /\ cmLocks[t] = NoLocks
              /\ tx[t].pins = <<>>
              /\ \A b \in Blocks : tx[t].bufOf[b] = 0
    /\ \A f \in Frames : bufs[f].pin_count = SumPins(Threads, f)
    /\ \A b \in Blocks :
          /\ count[b] = -1 => Cardinality({t \in Threads : HoldsX(t, b)}) = 1
          /\ count[b] > 0 => Cardinality({t \in Threads : HoldsS(t, b)}) = count[b]
          /\ count[b] \in {NoLock, 0} => \A t \in Threads : LockRank(t, b) = 0
    /\ \A t \in Threads : pc[t] # "panic"

\* C10 witness: a transaction that wrote a block has ended while another
\* transaction still has that block pinned
C10_Witness ==
    \E t, u \in Threads :
        /\ t # u
        /\ pc[t] = "notx" /\ tx[t].out \in {"commit", "rollback"}
        /\ \E b \in tx[t].wrote :
              /\ tx[u].bufOf[b] # 0
              /\ bufs[tx[u].bufOf[b]].pin_count = 1

\* ------------------------------------------------ log manager properties
IsPrefix(a, b) == Len(a) <= Len(b) /\ a = SubSeq(b, 1, Len(a))

\* snapshot s has so far yielded the newest records of sq, newest first, and
\* if it has ended it has yielded all of them
YieldsReverse(s, sq) ==
    /\ s.st # "panic"
    /\ IsPrefix(s.out, Reverse(sq))
    /\ s.st = "end" => s.out = Reverse(sq)

\* C11: in a log manager created on an empty directory, a snapshot taken
\* after records r1..rn were appended yields rn, ..., r1, one per next(), and
\* then ends (next() returns None), however many log pages the records span.
C11_SnapshotReverse ==
    logt.restarts = MaxRestarts =>
        \A i \in 1..Len(logt.snaps) : YieldsReverse(logt.snaps[i], logt.snaps[i].expect)

\* what snapshot s will still yield, read from the log file as it is now
SnapRemaining(s, L) ==
    IF s.st # "live" THEN <<>>
    ELSE Reverse(SubSeq(s.page, 1, s.pos)) \o
         (IF s.blk = 1 THEN <<>>
          ELSE IF L.file[s.blk - 1] = <<>> THEN <<BadRead>>
          ELSE SnapshotFrom(L.file, s.blk - 1))

\* C12: what a snapshot yields is fixed when it is taken: whatever is
\* appended or flushed afterwards, the records it has yielded followed by
\* the records it will yield are the sequence it would have yielded at once,
\* and it never yields a record appended after it was taken.
C12_SnapshotIndependent ==
    \A i \in 1..Len(logt.snaps) :
        LET s == logt.snaps[i] IN
        /\ s.out \o SnapRemaining(s, lg) = s.fixed
        /\ \A k \in 1..Len(s.out) :
              s.out[k] = BadRead \/ \E j \in 1..Len(s.expect) : s.out[k] = s.expect[j]

\* C12 witness: a snapshot taken in a later log page has been iterated to its
\* end while records were appended after it was taken
C12_Witness ==
    \E i \in 1..Len(logt.snaps) :
        /\ logt.snaps[i].st = "end"
        /\ Len(logt.snaps[i].out) >= 2
        /\ logt.snaps[i].out[1] # logt.hist[Len(logt.hist)]
        /\ Len(logt.old \o logt.hist) > Len(logt.snaps[i].expect)
        /\ lg.block_num > logt.snaps[i].blk

\* C13: when every record appended before a restart was flushed (by flush
\* with its LSN or a later one, or by snapshot), a snapshot of the new log
\* manager yields the records appended through the new manager, newest
\* first, then the records of before the restart, newest first, and ends.
C13_LogSurvivesRestart ==
    (logt.restarts < MaxRestarts /\ logt.sound /\ logt.old # <<>>) =>
        \A i \in 1..Len(logt.snaps) : YieldsReverse(logt.snaps[i], logt.snaps[i].expect)

\* C14: within one LogManager, the LSN that append returns is greater than
\* every LSN an earlier append returned, whichever thread called it (hist
\* holds each record of this lifetime with the LSN its append returned).
C14_LsnIncreasing ==
    \A j, k \in 1..Len(logt.hist) : j < k => logt.hist[j].lsn < logt.hist[k].lsn

\* C14 witness: two threads have appended, the later one into a new log page
C14_Witness ==
    /\ Cardinality(logt.callers) >= 2
    /\ Len(logt.hist) >= 3
    /\ lg.block_num >= 1

\* the newest record of the log, when the current log page holds one
NewestRec(L) == L.page[Len(L.page)]

\* what thread t's set_int / set_string with ok_to_log, in its step under the
\* buffer's write lock, is to have done: one record appended, holding the
\* value that was at the offset before the step; the page written; the
\* buffer marked with the transaction and the LSN of that append
LoggedSet(t) ==
    LET f == tx[t].bufOf[blk[t]]
        a == tx[t].arg
        old == IF a.kind = "int" THEN ReadI32(bufs[f].page, a.off)
               ELSE ReadStr(bufs[f].page, a.off)
    IN /\ lg'.latest_lsn = lg.latest_lsn + 1
       /\ lg'.page # <<>>
       /\ NewestRec(lg') =
             [type |-> IF a.kind = "int" THEN "SetInt" ELSE "SetString",
              tx |-> tx[t].num, blk |-> blk[t], off |-> a.off, val |-> old,
              lsn |-> lg'.latest_lsn]
       /\ IF a.kind = "int" THEN ReadI32(bufs'[f].page, a.off) = a.val
          ELSE ReadStr(bufs'[f].page, a.off) = a.val
       /\ bufs'[f].tx_num = tx[t].num
       /\ bufs'[f].lsn = lg'.latest_lsn

\* C26: in every logged set_int / set_string the SetInt / SetString record is
\* appended before the page bytes are changed and before the buffer is
\* marked modified: its value is the content of the offset immediately
\* before the write, and the buffer is marked with exactly the LSN that the
\* append returned.
C26_LogBeforeWrite ==
    [][\A t \in Threads :
          (pc[t] = "body" /\ pc'[t] # "body" /\ opn[t] = "set" /\ tx[t].arg.log)
              => LoggedSet(t)]_vars

\* C26 witness: the newest record is the SetString of a write over a string
\* written before, and the buffer of its block carries its LSN
C26_Witness ==
    /\ lg.page # <<>>
    /\ NewestRec(lg).type = "SetString"
    /\ NewestRec(lg).val # <<>>
    /\ \E f \in Frames :
          /\ bufs[f].blk = NewestRec(lg).blk
          /\ bufs[f].lsn = NewestRec(lg).lsn
          /\ bufs[f].tx_num = NewestRec(lg).tx
          /\ ReadStr(bufs[f].page, StrOff) # NewestRec(lg).val

\* C28: in every reachable state a buffer's tx_num is >= 0 if and only if
\* its page has been modified since it was last flushed; a newly created
\* buffer and a buffer that has just been flushed are not marked modified,
\* so that flushing them again writes nothing to the data file.
C28_DirtyInvariant ==
    \A f \in Frames :
        /\ bufs[f].tx_num >= 0 <=> bufs[f].dirty
        /\ ~bufs[f].dirty => ~BufWrites(bufs[f])

\* C27: the backward scan of rollback() stops at an earlier Commit record
\* of the same transaction: a change the transaction logged before one of
\* its own Commit records (clsn is the LSN of the latest) is never undone by
\* a later rollback() on the same Tx.
C27_RollbackStopsAtCommit ==
    \A t \in Threads :
        (opn[t] = "rollback" /\ pc[t] = "undo_unpin" /\ tx[t].clsn > 0)
            => Head(tx[t].snap).lsn > tx[t].clsn

\* record r is in a block of the log file
InLogFile(r) ==
    \E n \in 1..Len(lg.file) : \E k \in 1..Len(lg.file[n]) : lg.file[n][k] = r

\* C25: after flush(lsn) with lsn <= latest_lsn the current log page has
\* been written to its block: last_saved_lsn = latest_lsn and the log file
\* contains every record with LSN <= lsn.
C25_FlushWrites ==
    logt.last > 0 =>
        /\ lg.last_saved_lsn = lg.latest_lsn
        /\ \A k \in 1..Len(logt.hist) :
              logt.hist[k].lsn <= logt.last => InLogFile(logt.hist[k])

\* ------------------------------------------------ buffer pool properties
Unpinned == {f \in Frames : bufs[f].pin_count = 0}

\* C15: num_available is the number of frames whose pin count is 0; a pin of
\* a block that is already pinned leaves num_available as it is; and
\* num_available grows only in a step in which a pin count reaches 0.
C15_NumAvailable ==
    /\ [](bm.num_available = Cardinality(Unpinned))
    /\ [][/\ (\E f \in Frames : bufs[f].pin_count > 0 /\ bufs'[f].pin_count > bufs[f].pin_count)
                => bm'.num_available = bm.num_available
          /\ bm'.num_available > bm.num_available
                => \E f \in Frames : bufs[f].pin_count > 0 /\ bufs'[f].pin_count = 0]_vars

\* C15 witness: a block is pinned twice while another frame, pinned and
\* unpinned before, waits in the eviction list
C15_Witness ==
    /\ \E f \in Frames : bufs[f].pin_count = 2 /\ pool.held[f] = 2
    /\ bm.evict # <<>>
    /\ bm.num_available = 1

SeqSet(sq) == {sq[i] : i \in 1..Len(sq)}
Pinned == {f \in Frames : bufs[f].pin_count > 0}

\* C29: the unused list, the eviction policy's list and the set of frames
\* with pin count > 0 are pairwise disjoint and together contain every
\* frame; so the frame that a pin takes for a block which no frame held has
\* pin count 0 when it is taken.
C29_PinnedNotEvicted ==
    /\ [](/\ SeqSet(bm.unused) \cap SeqSet(bm.evict) = {}
          /\ SeqSet(bm.unused) \cap Pinned = {}
          /\ SeqSet(bm.evict) \cap Pinned = {}
          /\ SeqSet(bm.unused) \cup SeqSet(bm.evict) \cup Pinned = Frames)
    /\ [][\A b \in FileBlocks :
             (bm.blk_to_buf[b] = NoBlk /\ bm'.blk_to_buf[b] # NoBlk)
                 => /\ bufs[bm'.blk_to_buf[b]].pin_count = 0
                    /\ bm'.blk_to_buf[b] \in SeqSet(bm.unused) \cup SeqSet(bm.evict)]_vars

\* C29 witness: a block has been evicted; one frame is pinned and another
\* one, unpinned, waits in the eviction list
C29_Witness ==
    /\ pool.gone # {}
    /\ bm.unused = <<>>
    /\ bm.evict # <<>>
    /\ Pinned # {}

\* the frames that hold block b
Holders(b) == {f \in Frames : bufs[f].blk = b}

\* C30: blk_to_buf maps block b to frame i if and only if frame i holds b;
\* no block is held by two frames; and no mapping refers to a block that
\* has been evicted.
C30_MapConsistent ==
    /\ \A b \in FileBlocks : \A f \in Frames : bm.blk_to_buf[b] = f <=> bufs[f].blk = b
    /\ \A b \in FileBlocks : Cardinality(Holders(b)) <= 1
    /\ \A b \in pool.gone : bm.blk_to_buf[b] = NoBlk /\ Holders(b) = {}

\* C30 witness: a block has been evicted; every frame holds a block, which
\* the map refers to that frame, and one of the frames is unpinned
C30_Witness ==
    /\ pool.gone # {}
    /\ \A f \in Frames : bufs[f].blk # NoBlk /\ bm.blk_to_buf[bufs[f].blk] = f
    /\ \E f \in Frames : bufs[f].pin_count = 0

\* C31: the bytes written into a pinned buffer's page are what a later pin
\* of the same block finds, whatever was pinned and evicted in between: in
\* every state the frame that holds a block, or the data file when no frame
\* holds it, has the value last written to the block (0 before any write).
C31_WriteBack ==
    \A b \in FileBlocks :
        /\ \A f \in Frames : bufs[f].blk = b => ReadI32(bufs[f].page, IntOff) = pool.exp[b]
        /\ bm.blk_to_buf[b] = NoBlk => ReadI32(disk[b], IntOff) = pool.exp[b]

\* C31 witness: a block that was written, evicted (the data file has the
\* value) and pinned again is in a frame with that value, while another
\* block is evicted
C31_Witness ==
    \E b \in FileBlocks : \E f \in Frames :
        /\ pool.exp[b] # 0
        /\ ReadI32(disk[b], IntOff) = pool.exp[b]
        /\ bufs[f].blk = b
        /\ bufs[f].pin_count > 0
        /\ ReadI32(bufs[f].page, IntOff) = pool.exp[b]
        /\ pool.gone # {}

\* ----------------------------------------------- file manager properties
\* C17: get_block of a block yields the page that write_block (or, before
\* any write, append_block) last stored in it, through the FileManager that
\* wrote it and through a new FileManager on the same directory; so a write
\* to one block changes no other block.
C17_FileDurable ==
    \A id \in FmFiles : \A k \in 1..Len(fm.exp[id]) :
        /\ GetBlockPage(FmOf(fm), id, k - 1, 0) = fm.exp[id][k]
        /\ GetBlockPage([FmOf(fm) EXCEPT !.open = {}], id, k - 1, 0) = fm.exp[id][k]

\* C17 witness: after a restart, get_block has returned the page written to
\* a block whose neighbour in the file was never written by write_block
C17_Witness ==
    /\ fm.restarts < MaxFmRestarts
    /\ fm.last.op = "get"
    /\ <<fm.last.id, fm.last.num>> \in fm.wr
    /\ fm.last.ret = fm.exp[fm.last.id][fm.last.num + 1]
    /\ \E k \in 1..Len(fm.exp[fm.last.id]) :
          /\ <<fm.last.id, k - 1>> \notin fm.wr
          /\ fm.exp[fm.last.id][k] # fm.last.ret

BlockCount(file) == IF file = NoFile THEN 0 ELSE Len(file)

\* C32: get_block for a block beyond the end of the file leaves every byte
\* of the caller's page as it was (no zero fill) and does not change the
\* number of blocks of the file.
C32_GetBeyondEnd ==
    [][(fm'.last.op = "get_into" /\ fm'.last.num >= BlockCount(fm.dir[fm'.last.id]))
          => /\ fm'.last.ret = fm'.page
             /\ BlockCount(fm'.dir[fm'.last.id]) = BlockCount(fm.dir[fm'.last.id])
             /\ \A id \in FmFiles \ {fm'.last.id} : fm'.dir[id] = fm.dir[id]]_vars

\* C32 witness: get_block behind the last block of a file that has blocks
\* has returned the caller's page, which was not zero
C32_Witness ==
    /\ fm.last.op = "get_into"
    /\ fm.page # 0
    /\ fm.dir[fm.last.id] # NoFile
    /\ Len(fm.dir[fm.last.id]) > 0
    /\ fm.last.num >= Len(fm.dir[fm.last.id])
    /\ fm.last.ret = fm.page
    /\ \A k \in 1..Len(fm.dir[fm.last.id]) : fm.dir[fm.last.id][k] # fm.page

\* ------------------------------------------------ record page properties
UsedSlots == {slot \in RpSlots : GetFlag(rp.page, slot) = USED}

\* the slots that next_after returns when the iteration starts after `slot`
RECURSIVE Visited(_)
Visited(slot) ==
    LET nxt == NextAfter(rp.page, slot) IN
    IF nxt = -1 THEN <<>> ELSE <<nxt>> \o Visited(nxt)

\* next_after from -1 visits each USED slot exactly once, in increasing order
VisitsUsedOnce ==
    LET v == Visited(-1) IN
    /\ Len(v) = Cardinality(UsedSlots)
    /\ {v[i] : i \in DOMAIN v} = UsedSlots
    /\ \A i \in DOMAIN v : i > 1 => v[i - 1] < v[i]

\* C19, as stated: after N insert_after calls and K deletes of USED slots
\* with N - K <= slots per page, exactly N - K slots are USED and next_after
\* from -1 visits each of them once in increasing order, then returns -1.
C19_AllCallsCounted ==
    rp.n - rp.k <= Cardinality(RpSlots)
        => Cardinality(UsedSlots) = rp.n - rp.k /\ VisitsUsedOnce

\* C19, amended: with N the number of insert_after calls that returned a
\* slot (a call returns -1 when no EMPTY slot lies after its argument, and
\* then marks nothing), exactly N - K slots are USED and next_after from -1
\* visits each of them once in increasing order, then returns -1.
C19_SlotAccounting ==
    Cardinality(UsedSlots) = rp.ok - rp.k /\ VisitsUsedOnce

C19_Witness ==
    /\ rp.ok >= 3
    /\ rp.k >= 1
    /\ rp.last.op = "insert_after"
    /\ rp.last.ret # -1
    /\ Cardinality(UsedSlots) = 2

\* ------------------------------------------------------ B-tree properties
\* live entries with key k
RECURSIVE SumLive(_, _)
SumLive(k, rids) ==
    IF rids = {} THEN 0
    ELSE LET r == CHOOSE x \in rids : TRUE IN
         bt.live[<<k, r>>] + SumLive(k, rids \ {r})

LiveCount(k) == SumLive(k, BtRids)

\* C20: after any sequence of inserts and deletes, before_first(k) followed
\* by next() returns true exactly as many times as there are live entries
\* with key k, each time with get_rid() the RID of a live entry for k, and
\* then returns false.
C20_Lookup ==
    bt.scan.on =>
        /\ bt.scan.trues <= LiveCount(bt.cur.key)
        /\ ~bt.scan.stale
        /\ bt.scan.done => bt.scan.trues = LiveCount(bt.cur.key)

\* the keys of the records [0, num_records) of a page
PageKeys(pg) == [i \in 1..pg.num |-> pg.slots[i].dataval]

NonDecreasing(keys) == \A i \in 1..(Len(keys) - 1) : keys[i] <= keys[i + 1]

\* the keys of the overflow blocks chained from leaf block b on
RECURSIVE ChainKeys(_)
ChainKeys(b) ==
    IF ~InFile(bt.leaf, b) THEN <<>>
    ELSE PageKeys(bt.leaf[b + 1]) \o ChainKeys(bt.leaf[b + 1].flag)

\* the keys of leaf block b with those of its overflow chain, which holds
\* further entries of the key of its first record, put after that record
LeafKeys(b) ==
    LET keys == PageKeys(bt.leaf[b + 1]) IN
    IF keys = <<>> THEN ChainKeys(bt.leaf[b + 1].flag)
    ELSE <<keys[1]>> \o ChainKeys(bt.leaf[b + 1].flag) \o Tail(keys)

\* the keys of the leaves below directory block b, in the order of the
\* directory entries
RECURSIVE SubtreeKeys(_)
RECURSIVE ChildrenKeys(_, _)
SubtreeKeys(b) == ChildrenKeys(b, 1)

ChildrenKeys(b, i) ==
    IF i > bt.dir[b + 1].num THEN <<>>
    ELSE (IF bt.dir[b + 1].flag = 0
          THEN LeafKeys(bt.dir[b + 1].slots[i].block)
          ELSE SubtreeKeys(bt.dir[b + 1].slots[i].block))
         \o ChildrenKeys(b, i + 1)

\* the keys below the child of entry i of directory block b
ChildKeys(b, i) ==
    IF bt.dir[b + 1].flag = 0
    THEN LeafKeys(bt.dir[b + 1].slots[i].block)
    ELSE SubtreeKeys(bt.dir[b + 1].slots[i].block)

\* the directory blocks reached from block b
RECURSIVE DirBlocks(_)
DirBlocks(b) ==
    {b} \cup (IF bt.dir[b + 1].flag = 0 THEN {}
              ELSE UNION {DirBlocks(bt.dir[b + 1].slots[i].block) :
                            i \in 1..bt.dir[b + 1].num})

\* C21: after any sequence of inserts and deletes the records of every leaf
\* and directory page are in non-decreasing key order, a walk of the leaves
\* in directory order yields the keys in non-decreasing order, and the key
\* of every directory entry is <= every key below its child.
C21_Order ==
    bt.st = "open" =>
        /\ \A b \in 1..Len(bt.leaf) : NonDecreasing(PageKeys(bt.leaf[b]))
        /\ \A b \in 1..Len(bt.dir) : NonDecreasing(PageKeys(bt.dir[b]))
        /\ NonDecreasing(SubtreeKeys(0))
        /\ \A b \in DirBlocks(0) : \A i \in 1..bt.dir[b + 1].num :
              LET keys == ChildKeys(b, i) IN
              \A j \in 1..Len(keys) : bt.dir[b + 1].slots[i].dataval <= keys[j]

\* C22: when the backward scan of recover() meets a log record that cannot
\* be decoded, recover() does not panic (it skips the record and goes on with
\* the preceding one).
C22_RecoverSkipsCorrupt ==
    ~(/\ pc[RecoveryThread] = "panic"
      /\ opn[RecoveryThread] = "recover"
      /\ tx[RecoveryThread].snap # <<>>
      /\ Undecodable(Head(tx[RecoveryThread].snap)))

\* ------------------------------------------------------- page properties
\* what read::<T>(off) returns for the type of a written item
PgRead(off, ty) ==
    IF ty = "str" THEN ReadStr(pgt.data, off) ELSE ReadInt(pgt.data, off, ty)

\* C23: for every integer type and every ASCII string, the empty one
\* included, a value written at an offset where it fits reads back as the
\* same value at that offset; write returned sizeof(T), or 4 + |s| for a
\* string; values written back to back at the cumulative offsets all read
\* back unchanged.
C23_PageRoundTrip ==
    \A k \in 1..Len(pgt.items) :
        LET it == pgt.items[k] IN
        /\ PgRead(it.off, it.ty) = it.val
        /\ it.n = CASE it.ty \in {"u16", "i16"} -> 2
                    [] it.ty \in {"u32", "i32"} -> 4
                    [] it.ty \in {"u64", "i64"} -> 8
                    [] it.ty = "str" -> 4 + Len(it.val)

\* three values written back to back from offset 0: a negative i16, the
\* empty string and a negative i64
C23_Witness ==
    /\ Len(pgt.items) = 3
    /\ pgt.items[1].off = 0
    /\ pgt.items[1].ty = "i16" /\ pgt.items[1].val < 0
    /\ pgt.items[2].ty = "str" /\ pgt.items[2].val = <<>>
    /\ pgt.items[2].off = pgt.items[1].n
    /\ pgt.items[3].ty = "i64" /\ pgt.items[3].val < 0
    /\ pgt.items[3].off = pgt.items[1].n + pgt.items[2].n

\* ------------------------------------------- static hash index properties
\* the RIDs of the entries with key, in the order of entries
RECURSIVE RidsOf(_, _)
RidsOf(entries, key) ==
    IF entries = <<>> THEN <<>>
    ELSE (IF Head(entries)[1] = key THEN <<Head(entries)[2]>> ELSE <<>>)
             \o RidsOf(Tail(entries), key)

\* C24: after any sequence of insert and delete calls, before_first(k)
\* followed by next() until it returns false yields exactly the live RIDs
\* inserted under k, in insertion order, also when entries with other keys
\* are stored in the same bucket.
C24_Lookup == hx.look = "done" => hx.got = RidsOf(hx.live, hx.key)

\* the EMPTY slots of the page behind slot s
EmptyAfter(s) == {x \in RpSlots : x > s /\ GetFlag(rp.page, x) = EMPTY}

\* C33: insert_after(s) returns the smallest slot greater than s whose flag
\* is EMPTY and changes exactly that flag to USED, with a logged write (the
\* SetInt record holds the flag's offset and EMPTY); when the page has no
\* such slot it returns -1 and changes neither the page nor the log.
C33_InsertAfter ==
    [][(rp'.last.op = "insert_after" /\ rp'.calls = rp.calls + 1) =>
          LET s == rp'.last.arg
              r == rp'.last.ret
          IN IF EmptyAfter(s) = {}
             THEN r = -1 /\ rp'.page = rp.page /\ rp'.log = rp.log
             ELSE /\ r \in EmptyAfter(s)
                  /\ \A x \in EmptyAfter(s) : r <= x
                  /\ rp'.page = WriteI32(rp.page, RpOffset(r), USED)
                  /\ rp'.log = Append(rp.log, Rec("SetInt", 1, 1, RpOffset(r), EMPTY))]_vars

\* C33 witness: with slots 0 and 2 USED and slot 1 deleted, insert_after(-1)
\* has returned 1
C33_Witness ==
    /\ rp.last = [op |-> "insert_after", arg |-> -1, ret |-> 1]
    /\ rp.k >= 1
    /\ \A x \in {0, 1, 2} : GetFlag(rp.page, x) = USED
    /\ Len(rp.log) >= 5

\* the page with the records of log undone, newest first (what rollback of
\* the transaction does with its SetInt records)
RECURSIVE Undone(_, _)
Undone(page, log) ==
    IF log = <<>> THEN page
    ELSE Undone(WriteI32(page, log[Len(log)].off, log[Len(log)].val),
                SubSeq(log, 1, Len(log) - 1))

\* C34: every write of format is a logged write that appends a pre-image
\* record, so a rollback after format restores the page content that format
\* overwrote: undoing the records that format appended gives the page as it
\* was before format.
C34_FormatLogged ==
    [][(rp'.last.op = "format" /\ rp'.calls = rp.calls + 1) =>
          /\ Len(rp'.log) = Len(rp.log) + 2 * Cardinality(RpSlots)
          /\ Undone(rp'.page, SubSeq(rp'.log, Len(rp.log) + 1, Len(rp'.log))) = rp.page]_vars

\* the number of records (key, rid) in the pages of the leaf file L
RECURSIVE Stored(_, _, _)
Stored(L, key, rid) ==
    IF L = <<>> THEN 0
    ELSE Cardinality({i \in 1..Head(L).num :
                         /\ Head(L).slots[i].dataval = key
                         /\ Head(L).slots[i].block = rid.block
                         /\ Head(L).slots[i].id = rid.id})
         + Stored(Tail(L), key, rid)

\* C35: delete(key, rid) removes exactly one entry equal to (key, rid) when
\* one exists, also when it lies in an overflow page, and leaves every other
\* entry (other entries with the same key included) present; when no such
\* entry exists, the set of entries is unchanged.
C35_DeleteOne ==
    [][\A key \in BtKeys, rid \in BtRids :
          BtDelete(key, rid) =>
              /\ Stored(bt'.leaf, key, rid) =
                     IF Stored(bt.leaf, key, rid) > 0
                     THEN Stored(bt.leaf, key, rid) - 1 ELSE 0
              /\ \A e \in (BtKeys \X BtRids) \ {<<key, rid>>} :
                     Stored(bt'.leaf, e[1], e[2]) = Stored(bt.leaf, e[1], e[2])]_vars

\* C36: every B-tree page pins its block once when created and unpins it
\* once when dropped, so after any index operation (before_first, next,
\* insert with or without a split, delete) followed by close(), the pin
\* count of the transaction on every index block equals its value before
\* the operation (0 for a block that the operation appended).
C36_PinBalance ==
    [][bt.st = "open" =>
          /\ \A i \in 1..Len(bt'.pins.leaf) :
                 bt'.pins.leaf[i] = IF i <= Len(bt.pins.leaf) THEN bt.pins.leaf[i] ELSE 0
          /\ \A i \in 1..Len(bt'.pins.dir) :
                 bt'.pins.dir[i] = IF i <= Len(bt.pins.dir) THEN bt.pins.dir[i] ELSE 0]_vars

\* thread t sleeps in the wait loop of slock(b) while no exclusive lock is
\* held on b
AsleepInSlock(t, b) ==
    /\ pc[t] = "s_wait" /\ blk[t] = b /\ t \in waitq[b]
    /\ count[b] # -1

\* C37: no lost wake-up for shared waiters: when the exclusive holder of a
\* block unlocks while several transactions wait in slock for that block,
\* every one of them is eventually granted its shared lock under fair
\* scheduling without any further unlock of that block being needed: no
\* transaction stays asleep in slock while the block has no exclusive
\* holder.
C37_SharedWaitersWake ==
    \A t \in Threads :
        AsleepInSlock(t, TestBlk) ~> ~AsleepInSlock(t, TestBlk)

\* C38: a buffer's recorded LSN never falls below the LSN of a logged
\* change that is in its page and not yet written to disk: an unlogged
\* write (as made by undo) to a buffer that already carries a logged change
\* does not lower the LSN that flush makes durable.
C38_LsnCoversChanges ==
    \A f \in Frames :
        /\ bufs[f].lsn >= bufs[f].chg.int
        /\ bufs[f].lsn >= bufs[f].chg.str

\* C39: length(file) returns the number of blocks the file has on disk,
\* also for a file whose blocks were appended through an earlier
\* FileManager on the same directory and that the current one has not yet
\* opened.
C39_LengthIsBlockCount ==
    fm.last.op = "length" => fm.last.ret = BlockCount(fm.dir[fm.last.id])

\* C40: for every record that passes append's size check (length < P), the
\* payload and its 4-byte length are stored wholly inside one log page and
\* the page frontier stays within [4, P]; a record that cannot fit in an
\* empty page is rejected before any new log block is appended or any page
\* byte is changed.
C40_AppendWithinPage ==
    [][\A t \in LogThreads, len \in RecLens \cup {LongLen} :
          LogTAppend(t, len) =>
              IF FRONTIER_START + len + RecordLengthSize > LogPageSize
              THEN lg' = lg
              ELSE /\ lg'.page # <<>>
                   /\ Len(NewestRec(lg').val) = len
                   /\ NewestRec(lg').lsn = lg'.latest_lsn
                   /\ Frontier(lg'.page) \in FRONTIER_START..LogPageSize]_vars

====
